---- MODULE Spec2Model ----
(***************************************************************************)
(* Grading engine of GRANDMAS (backend/grading/grading_engine.js).         *)
(*                                                                         *)
(* Stored JSON values are tagged records; numbers (scores, points,         *)
(* answers, tolerances) are integers counting hundredths; strings are      *)
(* sequences of one-character strings.  Every `await pool.query` of a      *)
(* handler is one atomic storage step; a handler is the chain of its       *)
(* steps, and each storage step may fail (the query rejects).              *)
(***************************************************************************)
EXTENDS Integers, Sequences, FiniteSets, TLC

(***************************************************************************)
(* JSON / JavaScript values                                                *)
(***************************************************************************)
Undefined == [t |-> "undefined"]
Null      == [t |-> "null"]
NaN       == [t |-> "nan"]
Bool(b)   == [t |-> "bool", b |-> b]
Num(n)    == [t |-> "num", n |-> n]
Str(s)    == [t |-> "str", s |-> s]
Arr(a)    == [t |-> "arr", a |-> a]
Obj(o)    == [t |-> "obj", o |-> o]

\* JavaScript truthiness: `!x` is the negation of this.
Truthy(v) ==
  CASE v.t = "undefined" -> FALSE
    [] v.t = "null"      -> FALSE
    [] v.t = "nan"       -> FALSE
    [] v.t = "bool"      -> v.b
    [] v.t = "num"       -> v.n # 0
    [] v.t = "str"       -> v.s # <<>>
    [] OTHER             -> TRUE

IsArray(v) == v.t = "arr"

\* === (and the SameValueZero of Array.prototype.includes) on parsed JSON:
\* primitives compare by value, arrays and objects by reference, and two
\* parsed documents never share a reference.
StrictEquals(a, b) ==
  /\ a.t = b.t
  /\ CASE a.t = "bool" -> a.b = b.b
       [] a.t = "num"  -> a.n = b.n
       [] a.t = "str"  -> a.s = b.s
       [] a.t = "null" -> TRUE
       [] a.t = "undefined" -> TRUE
       [] OTHER        -> FALSE

Includes(arr, v) == \E i \in 1..Len(arr) : StrictEquals(arr[i], v)

\* Object.keys / Object.entries: own keys of an object, indices of an array
\* or of a string, nothing for a number or a boolean.
Keys(v) ==
  CASE v.t = "obj" -> DOMAIN v.o
    [] v.t = "arr" -> 0..(Len(v.a) - 1)
    [] v.t = "str" -> 0..(Len(v.s) - 1)
    [] OTHER       -> {}

\* x[key]
Get(v, k) ==
  CASE v.t = "obj" -> IF k \in DOMAIN v.o THEN v.o[k] ELSE Undefined
    [] v.t = "arr" -> IF k \in 0..(Len(v.a) - 1) THEN v.a[k + 1] ELSE Undefined
    [] v.t = "str" -> IF k \in 0..(Len(v.s) - 1) THEN Str(<<v.s[k + 1]>>) ELSE Undefined
    [] OTHER       -> Undefined

RECURSIVE SetToSortedSeq(_)
SetToSortedSeq(S) ==
  IF S = {} THEN <<>>
  ELSE LET m == CHOOSE x \in S : \A y \in S : x <= y
       IN  <<m>> \o SetToSortedSeq(S \ {m})

\* JSON.stringify as a sequence of tokens.
RECURSIVE JSONStringify(_)
RECURSIVE StringifyItems(_)
RECURSIVE StringifyMembers(_, _)
JSONStringify(v) ==
  CASE v.t = "null" -> <<"null">>
    [] v.t = "nan"  -> <<"null">>
    [] v.t = "undefined" -> <<"undefined">>
    [] v.t = "bool" -> IF v.b THEN <<"true">> ELSE <<"false">>
    [] v.t = "num"  -> <<ToString(v.n)>>
    [] v.t = "str"  -> <<"\"">> \o v.s \o <<"\"">>
    [] v.t = "arr"  -> <<"[">> \o StringifyItems(v.a) \o <<"]">>
    [] v.t = "obj"  -> <<"{">> \o StringifyMembers(v.o, SetToSortedSeq(DOMAIN v.o)) \o <<"}">>
StringifyItems(a) ==
  IF a = <<>> THEN <<>>
  ELSE JSONStringify(Head(a))
       \o (IF Len(a) > 1 THEN <<",">> ELSE <<>>)
       \o StringifyItems(Tail(a))
StringifyMembers(o, ks) ==
  IF ks = <<>> THEN <<>>
  ELSE <<"\"", ToString(Head(ks)), "\"", ":">> \o JSONStringify(o[Head(ks)])
       \o (IF Len(ks) > 1 THEN <<",">> ELSE <<>>)
       \o StringifyMembers(o, Tail(ks))

(***************************************************************************)
(* Strings                                                                 *)
(***************************************************************************)
LowerChar(c) ==
  CASE c = "A" -> "a"
    [] c = "C" -> "c"
    [] c = "I" -> "i"
    [] c = "P" -> "p"
    [] c = "R" -> "r"
    [] c = "S" -> "s"
    [] c = "T" -> "t"
    [] OTHER   -> c

ToLowerCase(s) == [i \in 1..Len(s) |-> LowerChar(s[i])]

RECURSIVE TrimStart(_)
TrimStart(s) == IF s # <<>> /\ Head(s) = " " THEN TrimStart(Tail(s)) ELSE s
RECURSIVE TrimEnd(_)
TrimEnd(s) ==
  IF s # <<>> /\ s[Len(s)] = " " THEN TrimEnd(SubSeq(s, 1, Len(s) - 1)) ELSE s
Trim(s) == TrimEnd(TrimStart(s))

\* Feedback texts; a and b are the numbers interpolated into a template.
Feedback(m) == [msg |-> m, a |-> 0, b |-> 0]
CountFeedback(m, a, b) == [msg |-> m, a |-> a, b |-> b]

Result(score, feedback, needsManualGrading) ==
  [throws |-> FALSE, score |-> score, feedback |-> feedback,
   needsManualGrading |-> needsManualGrading]

\* Outcome of a strategy that ran into a TypeError (a method called on a
\* value that does not have it).
Throws ==
  [throws |-> TRUE, score |-> Num(0), feedback |-> Feedback("TypeError"),
   needsManualGrading |-> Bool(FALSE)]

\* Math.round(x * 100) / 100 for x = (num / den) * points with num >= 0 and
\* points counted in hundredths (Math.round rounds a half upwards); 0/0 is NaN.
Round2(num, den, points) ==
  IF den = 0 THEN NaN
  ELSE Num((2 * num * points + den) \div (2 * den))

(***************************************************************************)
(* Question metadata (grading hints)                                       *)
(***************************************************************************)
Metadata(requiresManualGrading, caseSensitive, alwaysReview, reviewThreshold, similarityThreshold, type, tolerance, reviewIncorrect) ==
  [t |-> "meta",
   requiresManualGrading |-> requiresManualGrading,
   caseSensitive |-> caseSensitive,
   alwaysReview |-> alwaysReview,
   reviewThreshold |-> reviewThreshold,
   similarityThreshold |-> similarityThreshold,
   type |-> type,
   tolerance |-> tolerance,
   reviewIncorrect |-> reviewIncorrect]

\* {} : every hint reads as undefined.
EmptyMetadata ==
  Metadata(Undefined, Undefined, Undefined, Undefined, Undefined, "",
           Undefined, Undefined)

\* question.metadata || {}
MetadataOf(question) ==
  IF Truthy(question.metadata) THEN question.metadata ELSE EmptyMetadata

(***************************************************************************)
(* Grading strategies                                                      *)
(***************************************************************************)
gradeMultipleChoice(question) ==
  LET isCorrect == JSONStringify(question.correct_answer)
                     = JSONStringify(question.response_data)
  IN  Result(IF isCorrect THEN Num(question.points) ELSE Num(0),
             Feedback(IF isCorrect THEN "Correct answer" ELSE "Incorrect answer"),
             Bool(FALSE))

\* options.length; undefined for an object, a number or a boolean.
LengthOf(v) ==
  CASE v.t = "arr" -> Num(Len(v.a))
    [] v.t = "str" -> Num(Len(v.s))
    [] OTHER       -> Undefined

\* Variant of gradeMultipleAnswer that does not count the missed correct
\* options against the score.
gradeMultipleAnswerIgnoringMissed(question) ==
  LET correctAnswers == question.correct_answer
      studentAnswers == question.response_data
  IN
  IF ~IsArray(correctAnswers) \/ ~IsArray(studentAnswers)
  THEN Result(Num(0), Feedback("Invalid answer format"), Bool(FALSE))
  ELSE
    LET correctSelections ==
          Cardinality({i \in 1..Len(studentAnswers.a) :
                         Includes(correctAnswers.a, studentAnswers.a[i])})
        incorrectSelections ==
          Cardinality({i \in 1..Len(studentAnswers.a) :
                         ~Includes(correctAnswers.a, studentAnswers.a[i])})
        missedCorrect ==
          Cardinality({i \in 1..Len(correctAnswers.a) :
                         ~Includes(studentAnswers.a, correctAnswers.a[i])})
        totalOptions ==
          IF Truthy(question.options) THEN LengthOf(question.options)
          ELSE Num(Len(correctAnswers.a) + 2)
        roundedScore ==
          IF totalOptions.t # "num" THEN NaN
          ELSE LET correctDecisions ==
                     totalOptions.n - incorrectSelections
               IN  IF totalOptions.n = 0
                   THEN (IF correctDecisions = 0 THEN NaN ELSE Num(0))
                   ELSE IF correctDecisions < 0 THEN Num(0)
                   ELSE Round2(correctDecisions, totalOptions.n, question.points)
        feedback ==
          IF correctSelections = Len(correctAnswers.a) /\ incorrectSelections = 0
            THEN "All correct options selected"
          ELSE IF incorrectSelections > 0 /\ missedCorrect > 0
            THEN "Some incorrect options selected and some correct options missed"
          ELSE IF incorrectSelections > 0 THEN "Some incorrect options selected"
          ELSE IF missedCorrect > 0 THEN "Some correct options missed"
          ELSE ""
    IN  Result(roundedScore, Feedback(feedback), Bool(FALSE))

gradeMultipleAnswer(question) ==
  LET correctAnswers == question.correct_answer
      studentAnswers == question.response_data
  IN
  IF ~IsArray(correctAnswers) \/ ~IsArray(studentAnswers)
  THEN Result(Num(0), Feedback("Invalid answer format"), Bool(FALSE))
  ELSE
    LET correctSelections ==
          Cardinality({i \in 1..Len(studentAnswers.a) :
                         Includes(correctAnswers.a, studentAnswers.a[i])})
        incorrectSelections ==
          Cardinality({i \in 1..Len(studentAnswers.a) :
                         ~Includes(correctAnswers.a, studentAnswers.a[i])})
        missedCorrect ==
          Cardinality({i \in 1..Len(correctAnswers.a) :
                         ~Includes(studentAnswers.a, correctAnswers.a[i])})
        totalOptions ==
          IF Truthy(question.options) THEN LengthOf(question.options)
          ELSE Num(Len(correctAnswers.a) + 2)
        roundedScore ==
          IF totalOptions.t # "num" THEN NaN
          ELSE LET correctDecisions ==
                     totalOptions.n - incorrectSelections - missedCorrect
               IN  IF totalOptions.n = 0
                   THEN (IF correctDecisions = 0 THEN NaN ELSE Num(0))
                   ELSE IF correctDecisions < 0 THEN Num(0)
                   ELSE Round2(correctDecisions, totalOptions.n, question.points)
        feedback ==
          IF correctSelections = Len(correctAnswers.a) /\ incorrectSelections = 0
            THEN "All correct options selected"
          ELSE IF incorrectSelections > 0 /\ missedCorrect > 0
            THEN "Some incorrect options selected and some correct options missed"
          ELSE IF incorrectSelections > 0 THEN "Some incorrect options selected"
          ELSE IF missedCorrect > 0 THEN "Some correct options missed"
          ELSE ""
    IN  Result(roundedScore, Feedback(feedback), Bool(FALSE))

gradeMatching(question) ==
  LET correctMatches == question.correct_answer
      studentMatches == question.response_data
  IN
  IF ~Truthy(correctMatches) \/ ~Truthy(studentMatches)
  THEN Result(Num(0), Feedback("Invalid answer format"), Bool(FALSE))
  ELSE
    LET totalMatches == Cardinality(Keys(correctMatches))
        correctCount ==
          Cardinality({k \in Keys(studentMatches) :
                         StrictEquals(Get(correctMatches, k), Get(studentMatches, k))})
    IN  Result(Round2(correctCount, totalMatches, question.points),
               CountFeedback("matches correct", correctCount, totalMatches),
               Bool(FALSE))

\* compareAnswers: "throws" when toLowerCase / trim is called on a value that
\* is not a string, otherwise the outcome of the comparison.
compareAnswers(studentAnswer, correctAnswer, caseSensitive) ==
  IF studentAnswer.t # "str" \/ correctAnswer.t # "str" THEN "throws"
  ELSE LET s == IF ~Truthy(caseSensitive) THEN ToLowerCase(studentAnswer.s)
                ELSE studentAnswer.s
           c == IF ~Truthy(caseSensitive) THEN ToLowerCase(correctAnswer.s)
                ELSE correctAnswer.s
       IN  IF Trim(s) = Trim(c) THEN "true" ELSE "false"

\* correctAnswer.some(answer => compareAnswers(studentAnswer, answer, cs)):
\* the alternatives are tried in order up to the first that matches.
RECURSIVE SomeAlternative(_, _, _)
SomeAlternative(studentAnswer, alternatives, caseSensitive) ==
  IF alternatives = <<>> THEN "false"
  ELSE LET r == compareAnswers(studentAnswer, Head(alternatives), caseSensitive)
       IN  IF r = "false"
           THEN SomeAlternative(studentAnswer, Tail(alternatives), caseSensitive)
           ELSE r

\* One iteration of the loop over the blanks: "true", "false" or "throws".
BlankOutcome(studentAnswer, correctAnswer, caseSensitive) ==
  IF ~Truthy(studentAnswer) THEN "false"
  ELSE IF IsArray(correctAnswer)
       THEN SomeAlternative(studentAnswer, correctAnswer.a, caseSensitive)
       ELSE compareAnswers(studentAnswer, correctAnswer, caseSensitive)

gradeFillInBlank(question) ==
  LET correctAnswers == question.correct_answer
      studentAnswers == question.response_data
      metadata == MetadataOf(question)
  IN
  IF ~Truthy(correctAnswers) \/ ~Truthy(studentAnswers)
  THEN Result(Num(0), Feedback("Invalid answer format"), Bool(FALSE))
  ELSE IF Truthy(metadata.requiresManualGrading)
  THEN Result(Num(0), Feedback("This response requires manual grading"), Bool(TRUE))
  ELSE
    LET outcome(k) == BlankOutcome(Get(studentAnswers, k), Get(correctAnswers, k),
                                   metadata.caseSensitive)
        totalBlanks == Cardinality(Keys(correctAnswers))
        correctCount == Cardinality({k \in Keys(correctAnswers) : outcome(k) = "true"})
        feedback ==
          IF correctCount = totalBlanks THEN Feedback("All answers correct")
          ELSE IF correctCount = 0 THEN Feedback("All answers incorrect")
          ELSE CountFeedback("answers correct", correctCount, totalBlanks)
        \* metadata.alwaysReview === true ||
        \*   (metadata.reviewThreshold && ratio < metadata.reviewThreshold)
        needsManualGrading ==
          IF metadata.alwaysReview = Bool(TRUE) THEN Bool(TRUE)
          ELSE IF ~Truthy(metadata.reviewThreshold) THEN metadata.reviewThreshold
          ELSE Bool(/\ metadata.reviewThreshold.t = "num"
                    /\ totalBlanks # 0
                    /\ 100 * correctCount < metadata.reviewThreshold.n * totalBlanks)
    IN  IF \E k \in Keys(correctAnswers) : outcome(k) = "throws"
        THEN Throws
        ELSE Result(Round2(correctCount, totalBlanks, question.points),
                    feedback, needsManualGrading)

(***************************************************************************)
(* Similarity scorer                                                       *)
(***************************************************************************)
\* WordTokenizer.tokenize: the maximal runs of word characters.
RECURSIVE Tokenize(_, _)
Tokenize(s, word) ==
  IF s = <<>> THEN (IF word = <<>> THEN <<>> ELSE <<word>>)
  ELSE IF Head(s) = " "
       THEN (IF word = <<>> THEN <<>> ELSE <<word>>) \o Tokenize(Tail(s), <<>>)
       ELSE Tokenize(Tail(s), Append(word, Head(s)))

EndsWith(w, suffix) ==
  /\ Len(w) >= Len(suffix)
  /\ SubSeq(w, Len(w) - Len(suffix) + 1, Len(w)) = suffix

DropLast(w, n) == SubSeq(w, 1, Len(w) - n)

\* PorterStemmer.stem on words without a derivational suffix: only step 1a
\* (plural endings) rewrites such a word.
Stem(w) ==
  IF Len(w) < 3 THEN w
  ELSE IF EndsWith(w, <<"s", "s", "e", "s">>) THEN DropLast(w, 2)
  ELSE IF EndsWith(w, <<"i", "e", "s">>) THEN DropLast(w, 2)
  ELSE IF EndsWith(w, <<"s", "s">>) THEN w
  ELSE IF EndsWith(w, <<"s">>) THEN DropLast(w, 1)
  ELSE w

RECURSIVE Concat(_)
Concat(words) == IF words = <<>> THEN <<>> ELSE Head(words) \o Concat(Tail(words))

Bigrams(s) == {<<s[i], s[i + 1]>> : i \in 1..(Len(s) - 1)}
BigramCount(s, b) == Cardinality({i \in 1..(Len(s) - 1) : <<s[i], s[i + 1]>> = b})
Min(a, b) == IF a <= b THEN a ELSE b

\* Number of bigram occurrences of `second` matched by one of `first`.
RECURSIVE CommonBigrams(_, _, _)
CommonBigrams(S, first, second) ==
  IF S = {} THEN 0
  ELSE LET b == CHOOSE y \in S : TRUE
       IN  Min(BigramCount(first, b), BigramCount(second, b))
             + CommonBigrams(S \ {b}, first, second)

\* stringSimilarity.compareTwoStrings (Dice coefficient over the character
\* bigrams of the two strings with whitespace removed), as the fraction
\* num / den.
compareTwoStrings(first, second) ==
  IF first = second THEN [num |-> 1, den |-> 1]
  ELSE IF Len(first) < 2 \/ Len(second) < 2 THEN [num |-> 0, den |-> 1]
  ELSE [num |-> 2 * CommonBigrams(Bigrams(first), first, second),
        den |-> Len(first) + Len(second) - 2]

\* Both arguments are strings here (the caller has checked).
calculateTextSimilarity(text1, text2) ==
  LET tokens1 == Tokenize(ToLowerCase(text1), <<>>)
      tokens2 == Tokenize(ToLowerCase(text2), <<>>)
      stems1 == [i \in 1..Len(tokens1) |-> Stem(tokens1[i])]
      stems2 == [i \in 1..Len(tokens2) |-> Stem(tokens2[i])]
  IN  compareTwoStrings(Concat(stems1), Concat(stems2))

\* Variant of ShortAnswerBand in which a similarity equal to the threshold
\* is not yet a match.
ShortAnswerBandAbove(similarity, threshold, points, alwaysReview) ==
  IF 100 * similarity.num > threshold * similarity.den
  THEN Result(Num(points), Feedback("Answer matches expected response"),
              Bool(alwaysReview = Bool(TRUE)))
  ELSE IF 1000 * similarity.num >= 7 * threshold * similarity.den
  THEN Result(Num(points \div 2),
              Feedback("Answer partially matches expected response"), Bool(TRUE))
  ELSE Result(Num(0), Feedback("Answer does not match expected response"),
              Bool(TRUE))

\* The bands of gradeShortAnswer for a similarity num/den and a threshold in
\* hundredths.
ShortAnswerBand(similarity, threshold, points, alwaysReview) ==
  IF 100 * similarity.num >= threshold * similarity.den
  THEN Result(Num(points), Feedback("Answer matches expected response"),
              Bool(alwaysReview = Bool(TRUE)))
  ELSE IF 1000 * similarity.num >= 7 * threshold * similarity.den
  THEN Result(Num(points \div 2),
              Feedback("Answer partially matches expected response"), Bool(TRUE))
  ELSE Result(Num(0), Feedback("Answer does not match expected response"),
              Bool(TRUE))

DefaultSimilarityThreshold == 80

gradeShortAnswer(question) ==
  LET correctAnswer == question.correct_answer
      studentAnswer == question.response_data
      metadata == MetadataOf(question)
  IN
  IF ~Truthy(correctAnswer) \/ ~Truthy(studentAnswer)
  THEN Result(Num(0), Feedback("Invalid answer format"), Bool(FALSE))
  ELSE IF Truthy(metadata.requiresManualGrading)
  THEN Result(Num(0), Feedback("This response requires manual grading"), Bool(TRUE))
  ELSE IF studentAnswer.t # "str" \/ correctAnswer.t # "str"
  THEN Throws
  ELSE
    LET threshold == IF Truthy(metadata.similarityThreshold)
                     THEN metadata.similarityThreshold.n
                     ELSE DefaultSimilarityThreshold
    IN  ShortAnswerBand(calculateTextSimilarity(studentAnswer.s, correctAnswer.s),
                        threshold, question.points, metadata.alwaysReview)

(***************************************************************************)
(* Numbers                                                                 *)
(***************************************************************************)
DigitVal(c) ==
  CASE c = "0" -> 0 [] c = "1" -> 1 [] c = "2" -> 2 [] c = "3" -> 3
    [] c = "4" -> 4 [] c = "5" -> 5 [] c = "6" -> 6 [] c = "7" -> 7
    [] c = "8" -> 8 [] c = "9" -> 9 [] OTHER -> -1

RECURSIVE DigitPrefix(_)
DigitPrefix(s) ==
  IF s # <<>> /\ DigitVal(Head(s)) >= 0 THEN <<Head(s)>> \o DigitPrefix(Tail(s))
  ELSE <<>>

RECURSIVE DigitsValue(_)
DigitsValue(d) ==
  IF d = <<>> THEN 0 ELSE 10 * DigitsValue(DropLast(d, 1)) + DigitVal(d[Len(d)])

\* parseFloat of a string: optional sign, digits, optional fraction (of which
\* the hundredths are kept); NaN when no digit is found.
ParseFloatString(str) ==
  LET s == TrimStart(str)
      neg == s # <<>> /\ Head(s) = "-"
      body == IF s # <<>> /\ Head(s) \in {"-", "+"} THEN Tail(s) ELSE s
      ip == DigitPrefix(body)
      rest == SubSeq(body, Len(ip) + 1, Len(body))
      fp == IF rest # <<>> /\ Head(rest) = "." THEN DigitPrefix(Tail(rest)) ELSE <<>>
      fp2 == SubSeq(fp \o <<"0", "0">>, 1, 2)
      magnitude == 100 * DigitsValue(ip) + DigitsValue(fp2)
  IN  IF ip = <<>> /\ fp = <<>> THEN NaN
      ELSE Num(IF neg THEN 0 - magnitude ELSE magnitude)

\* parseFloat(x): x is converted to a string first (an array to the list of
\* its elements, of which parseFloat reads the first).
RECURSIVE ParseFloat(_)
ParseFloat(v) ==
  CASE v.t = "num" -> v
    [] v.t = "str" -> ParseFloatString(v.s)
    [] v.t = "arr" -> IF v.a = <<>> THEN NaN ELSE ParseFloat(v.a[1])
    [] OTHER       -> NaN

Abs(x) == IF x < 0 THEN 0 - x ELSE x

gradeComputational(question) ==
  LET correctAnswer == question.correct_answer
      studentAnswer == question.response_data
      metadata == MetadataOf(question)
  IN
  IF ~Truthy(correctAnswer) \/ ~Truthy(studentAnswer)
  THEN Result(Num(0), Feedback("Invalid answer format"), Bool(FALSE))
  ELSE IF Truthy(metadata.requiresManualGrading)
  THEN Result(Num(0), Feedback("This response requires manual grading"), Bool(TRUE))
  ELSE IF metadata.type = "numeric"
  THEN
    LET tolerance == IF Truthy(metadata.tolerance) THEN metadata.tolerance.n ELSE 0
        student == ParseFloat(studentAnswer)
        correct == ParseFloat(correctAnswer)
        isCorrect == /\ student.t = "num"
                     /\ correct.t = "num"
                     /\ Abs(student.n - correct.n) <= tolerance
    IN  Result(IF isCorrect THEN Num(question.points) ELSE Num(0),
               Feedback(IF isCorrect THEN "Correct answer" ELSE "Incorrect answer"),
               Bool(~isCorrect /\ metadata.reviewIncorrect = Bool(TRUE)))
  ELSE IF metadata.type = "formula"
  THEN Result(Num(0), Feedback("Formula evaluation requires manual grading"),
              Bool(TRUE))
  ELSE Result(Num(0),
              Feedback("This computational question requires manual grading"),
              Bool(TRUE))

gradeCoding(question) ==
  Result(Num(0),
         Feedback("Code evaluation requires manual grading or test case execution"),
         Bool(TRUE))

\* The switch of gradeSubmission on question.question_type.  The strategies
\* of the first three cases are destructured as { score, feedback }, so the
\* flag keeps its initial false.
GradeQuestion(question) ==
  CASE question.question_type \in {"true_false", "multiple_choice"} ->
         gradeMultipleChoice(question)
    [] question.question_type = "multiple_answer" -> gradeMultipleAnswer(question)
    [] question.question_type = "matching" -> gradeMatching(question)
    [] question.question_type = "fill_in_blank" -> gradeFillInBlank(question)
    [] question.question_type = "short_answer" -> gradeShortAnswer(question)
    [] question.question_type = "computational" -> gradeComputational(question)
    [] question.question_type = "coding" -> gradeCoding(question)
    [] OTHER ->
         Result(Num(0), Feedback("This question type requires manual grading"),
                Bool(TRUE))

(***************************************************************************)
(* Stored data                                                             *)
(***************************************************************************)
NumQuestions == 2      \* questions of the assignment
NumSubmissions == 2    \* submissions of the assignment, one per student
MaxCalls == 2          \* handler invocations of the sequential client

\* Invocation slots: the sequential client uses slot 1, a race uses both.
Procs == {1, 2}
SubmissionIds == 1..NumSubmissions
QuestionIds == 1..NumQuestions

VARIABLES
  questions,      \* table questions: question_id -> row
  responses,      \* table question_responses: response_id -> row
  submissions,    \* table submissions: submission_id -> row
  categories,     \* table assignment_categories: rows
  assignments,    \* table assignments: assignment_id -> row
  thresholds,     \* grading_scale_thresholds joined to course_grading_scales
  enrollments,    \* table enrollments: rows
  procs,          \* per invocation slot: position and locals of the handler
  strategy        \* a grading strategy applied on its own: argument and result

\* The tables no handler of the grading engine writes.
course == <<categories, assignments, thresholds>>

vars == <<questions, responses, submissions, course, enrollments, procs, strategy>>

\* No strategy is applied outside gradeSubmission.
NoStrategy == [question |-> Null, result |-> Null, applied |-> FALSE]

\* A question of assignment 1, the assignment whose grading is modelled.
Question(type, points, correct, options, metadata) ==
  [assignment_id |-> 1, question_type |-> type, points |-> points,
   correct_answer |-> correct, options |-> options, metadata |-> metadata]

S(str) == Str(str)

NumericMetadata ==
  Metadata(Undefined, Undefined, Undefined, Undefined, Undefined, "numeric",
           Num(50), Undefined)

\* Question definitions as createQuestion stores them, each with the
\* response_data students may have submitted for it.
QuestionBank ==
  { [q |-> Question("multiple_choice", 200, S(<<"a">>),
                    Arr(<<S(<<"a">>), S(<<"b">>)>>), Null),
     r |-> {S(<<"a">>), S(<<"b">>)}],
    [q |-> Question("essay", 300, Null, Null, Null),
     r |-> {S(<<"t", "e", "x", "t">>)}],
    [q |-> Question("fill_in_blank", 200,
                    Obj(1 :> Arr(<<S(<<"P", "a", "r", "i", "s">>),
                                   S(<<"p", "a", "r", "i", "s">>)>>)
                        @@ 2 :> S(<<"c", "a", "t">>)),
                    Null, Null),
     r |-> {Obj(1 :> S(<<"P", "A", "R", "I", "S">>) @@ 2 :> S(<<"r", "a", "t">>)),
            Obj(1 :> S(<<"p", "a", "r", "i", "s">>) @@ 2 :> Num(700))}],
    [q |-> Question("short_answer", 200, S(<<"c", "a", "t", "s", " ", "a", "r", "t">>),
                    Null, Null),
     r |-> {S(<<"c", "a", "t", " ", "r", "a", "t">>)}] }

Response(submission_id, question_id, data) ==
  [submission_id |-> submission_id, question_id |-> question_id,
   response_data |-> data, score |-> Null, feedback |-> Null,
   graded_at |-> FALSE, graded_by |-> Null]

Submission(assignment_id, student_id, status, total_score) ==
  [assignment_id |-> assignment_id, student_id |-> student_id,
   status |-> status, total_score |-> total_score,
   graded_at |-> status = "graded", graded_by |-> Null]

\* SUM(score) of SQL and `totalScore += score` of JavaScript.
Plus(a, b) ==
  IF a.t = "num" /\ b.t = "num" THEN Num(a.n + b.n) ELSE NaN

RECURSIVE SumScores(_, _)
SumScores(rs, ids) ==
  IF ids = {} THEN Null
  ELSE LET id == CHOOSE x \in ids : TRUE
           rest == SumScores(rs, ids \ {id})
       IN  IF rs[id].score.t = "null" THEN rest
           ELSE IF rest.t = "null" THEN rs[id].score
           ELSE Plus(rs[id].score, rest)

(***************************************************************************)
(* Handler results and locals                                              *)
(***************************************************************************)
Reply(statusCode, message) ==
  [statusCode |-> statusCode, message |-> message, totalScore |-> Null,
   needsManualGrading |-> FALSE, gradingResults |-> <<>>,
   finalGrade |-> Null, letterGrade |-> Null, categoryGrades |-> <<>>]

NoReply == Reply(0, "")

GradeReply(totalScore, needsManualGrading, gradingResults) ==
  [Reply(200, "") EXCEPT !.totalScore = totalScore,
                         !.needsManualGrading = needsManualGrading,
                         !.gradingResults = gradingResults]

FinalGradeReply(finalGrade, letterGrade, categoryGrades) ==
  [Reply(200, "") EXCEPT !.finalGrade = finalGrade, !.letterGrade = letterGrade,
                         !.categoryGrades = categoryGrades]

GradingResult(questionId, responseId, score, feedback, needsManualGrading) ==
  [questionId |-> questionId, responseId |-> responseId, score |-> score,
   feedback |-> feedback, needsManualGrading |-> needsManualGrading]

NoAggregate ==
  [submission_id |-> 0, total_questions |-> 0, graded_questions |-> 0,
   total_score |-> Null]

\* pc: position of the handler; queries: storage calls issued so far by the
\* running invocation; cause: what sent it into its catch block ("storage":
\* a query rejected, "exception": a TypeError in a strategy); pre: the stored responses and submissions when the
\* invocation started; lastGrade: per submission, the last success reply of
\* gradeSubmission; prev: lastGrade of the submission when the invocation
\* started.
IdleProc ==
  [pc |-> "idle", op |-> "none", calls |-> 0, queries |-> 0, cause |-> "",
   submissionId |-> 0, questionId |-> 0, responseData |-> Undefined,
   responseId |-> 0, score |-> Undefined, feedback |-> "",
   graderId |-> 0, assignmentId |-> 0, studentId |-> 0, courseId |-> 0,
   finalGrade |-> Null, letterGrade |-> Null, categoryGrades |-> <<>>,
   rows |-> <<>>, i |-> 0, totalScore |-> Num(0), gradingResults |-> <<>>,
   agg |-> NoAggregate,
   result |-> NoReply,
   pre |-> [responses |-> <<>>, submissions |-> <<>>, enrollments |-> <<>>],
   lastGrade |-> [s \in SubmissionIds |-> NoReply],
   prev |-> NoReply]

\* The locals a new invocation starts from.
Fresh(pr, op) ==
  [pr EXCEPT !.op = op, !.calls = @ + 1, !.queries = 0, !.cause = "",
             !.submissionId = 0, !.questionId = 0, !.responseData = Undefined,
             !.responseId = 0, !.score = Undefined,
             !.feedback = "", !.graderId = 0, !.assignmentId = 0,
             !.studentId = 0, !.courseId = 0, !.finalGrade = Null,
             !.letterGrade = Null, !.categoryGrades = <<>>,
             !.rows = <<>>, !.i = 0, !.totalScore = Num(0),
             !.gradingResults = <<>>, !.agg = NoAggregate, !.result = NoReply,
             !.pre = [responses |-> responses, submissions |-> submissions,
                      enrollments |-> enrollments],
             !.prev = NoReply]

Return(pr, reply) == [pr EXCEPT !.pc = "done", !.result = reply]

\* Variant of Catch that lets the error escape instead of replying.
Rethrow(pr, cause) == [pr EXCEPT !.pc = "thrown", !.cause = cause]

\* catch (error) { return { statusCode: 500, ... } }
Catch(pr, cause) ==
  [Return(pr, Reply(500, "Internal server error")) EXCEPT !.cause = cause]

(***************************************************************************)
(* Initial state: an assignment with NumQuestions questions, and for each  *)
(* submission at most one response per question, nothing graded yet.       *)
(***************************************************************************)
RECURSIVE ResponseRows(_, _)
ResponseRows(pairs, data) ==
  IF pairs = <<>> THEN <<>>
  ELSE <<Response(Head(pairs)[1], Head(pairs)[2], data[Head(pairs)[2]])>>
       \o ResponseRows(Tail(pairs), data)

RECURSIVE PairSeq(_, _)
PairSeq(s, q) ==
  IF s > NumSubmissions THEN <<>>
  ELSE IF q > NumQuestions THEN PairSeq(s + 1, 1)
  ELSE <<<<s, q>>>> \o PairSeq(s, q + 1)

\* Student s has submission s for assignment 1, not graded, and submission
\* NumSubmissions + s for assignment 2 (an exam without modelled questions),
\* graded with 45 of 50 points.
InitialSubmissions ==
  [id \in 1..(2 * NumSubmissions) |->
     IF id <= NumSubmissions THEN Submission(1, id, "submitted", Null)
     ELSE Submission(2, id - NumSubmissions, "graded", Num(4500))]

\* Course 1: Homework (weight 40) and Exams (weight 60); course 2 has no
\* category.
CourseCategories ==
  << [category_id |-> 1, course_id |-> 1, name |-> "Homework", weight |-> 4000],
     [category_id |-> 2, course_id |-> 1, name |-> "Exams", weight |-> 6000] >>

RECURSIVE SumPoints(_, _)
SumPoints(qs, q) == IF q > NumQuestions THEN 0 ELSE qs[q].points + SumPoints(qs, q + 1)

\* Assignment 1 is worth the points of its questions.
CourseAssignments(qs) ==
  << [assignment_id |-> 1, category_id |-> 1, total_points |-> SumPoints(qs, 1),
      is_published |-> TRUE],
     [assignment_id |-> 2, category_id |-> 2, total_points |-> 5000,
      is_published |-> TRUE] >>

\* The scale of course 1, ordered by min_score descending.
CourseThresholds ==
  << [course_id |-> 1, grade |-> "A", min_score |-> 9000, max_score |-> 10000],
     [course_id |-> 1, grade |-> "B", min_score |-> 8000, max_score |-> 8999],
     [course_id |-> 1, grade |-> "F", min_score |-> 0, max_score |-> 7999] >>

\* The first student has answered any of the questions, the other students
\* all of them; the students who answered a question gave the same answer.
Init ==
  \E bank \in [QuestionIds -> QuestionBank] :
  \E answered \in SUBSET QuestionIds :
  \E data \in [QuestionIds -> UNION {e.r : e \in QuestionBank}] :
    /\ \A q \in QuestionIds : data[q] \in bank[q].r
    /\ questions = [q \in QuestionIds |-> bank[q].q]
    /\ responses =
         ResponseRows(SelectSeq(PairSeq(1, 1),
                                LAMBDA pq : pq[1] > 1 \/ pq[2] \in answered),
                      data)
    /\ submissions = InitialSubmissions
    /\ categories = CourseCategories
    /\ assignments = CourseAssignments(questions)
    /\ thresholds = CourseThresholds
    /\ enrollments = [s \in SubmissionIds |->
                        [student_id |-> s, course_id |-> 1, final_grade |-> Null]]
    /\ procs = [p \in Procs |->
                  [IdleProc EXCEPT !.pre = [responses |-> responses,
                                            submissions |-> submissions,
                                            enrollments |-> enrollments]]]
    /\ strategy = NoStrategy

(***************************************************************************)
(* Storage queries, over the tables rs (question_responses) and subs       *)
(* (submissions)                                                           *)
(***************************************************************************)
\* SELECT ... FROM submissions s JOIN assignments a ... WHERE submission_id = $1
SelectSubmission(subs, submissionId) ==
  IF submissionId \in DOMAIN subs
  THEN <<[submission_id |-> submissionId,
          assignment_id |-> subs[submissionId].assignment_id,
          status |-> subs[submissionId].status]>>
  ELSE <<>>

\* One row of the questions query.  The column list has no q.metadata, so
\* question.metadata is undefined in every row.
QuestionRow(rs, q, responseId) ==
  [question_id |-> q,
   question_type |-> questions[q].question_type,
   points |-> questions[q].points,
   correct_answer |-> questions[q].correct_answer,
   options |-> questions[q].options,
   metadata |-> Undefined,
   response_id |-> responseId,
   response_data |-> IF responseId = 0 THEN Null
                     ELSE rs[responseId].response_data]

\* Variant of SelectQuestions that joins only the responses without a score.
RECURSIVE SelectUngradedQuestions(_, _, _, _)
SelectUngradedQuestions(rs, submissionId, assignmentId, q) ==
  IF q > NumQuestions THEN <<>>
  ELSE IF questions[q].assignment_id # assignmentId
  THEN SelectUngradedQuestions(rs, submissionId, assignmentId, q + 1)
  ELSE LET ids == {r \in DOMAIN rs :
                     /\ rs[r].question_id = q
                     /\ rs[r].submission_id = submissionId
                     /\ rs[r].score.t = "null"}
           matched == SetToSortedSeq(ids)
       IN  (IF ids = {} THEN <<QuestionRow(rs, q, 0)>>
            ELSE [k \in 1..Len(matched) |-> QuestionRow(rs, q, matched[k])])
           \o SelectUngradedQuestions(rs, submissionId, assignmentId, q + 1)

\* SELECT ... FROM questions q LEFT JOIN question_responses qr
\*   ON q.question_id = qr.question_id AND qr.submission_id = $1
\* WHERE q.assignment_id = $2 ORDER BY q.order_num
RECURSIVE SelectQuestions(_, _, _, _)
SelectQuestions(rs, submissionId, assignmentId, q) ==
  IF q > NumQuestions THEN <<>>
  ELSE IF questions[q].assignment_id # assignmentId
  THEN SelectQuestions(rs, submissionId, assignmentId, q + 1)
  ELSE LET ids == {r \in DOMAIN rs :
                     /\ rs[r].question_id = q
                     /\ rs[r].submission_id = submissionId}
           matched == SetToSortedSeq(ids)
       IN  (IF ids = {} THEN <<QuestionRow(rs, q, 0)>>
            ELSE [k \in 1..Len(matched) |-> QuestionRow(rs, q, matched[k])])
           \o SelectQuestions(rs, submissionId, assignmentId, q + 1)

\* Variant of UpdateResponseScore that adds the score to the stored one.
UpdateResponseScoreAdding(rs, responseId, score, feedback) ==
  [r \in DOMAIN rs |->
     IF r = responseId
     THEN [rs[r] EXCEPT !.score = IF @ = Null THEN score ELSE Plus(@, score),
                        !.feedback = feedback, !.graded_at = TRUE]
     ELSE rs[r]]

\* UPDATE question_responses SET score, feedback, graded_at WHERE response_id = $3
UpdateResponseScore(rs, responseId, score, feedback) ==
  [r \in DOMAIN rs |->
     IF r = responseId
     THEN [rs[r] EXCEPT !.score = score, !.feedback = feedback, !.graded_at = TRUE]
     ELSE rs[r]]

\* UPDATE question_responses SET score, feedback, graded_at, graded_by
\* WHERE response_id = $4
UpdateResponseManual(rs, responseId, score, feedback, graderId) ==
  [r \in DOMAIN rs |->
     IF r = responseId
     THEN [rs[r] EXCEPT !.score = score, !.feedback = feedback,
                        !.graded_at = TRUE, !.graded_by = Num(graderId)]
     ELSE rs[r]]

\* Variant of FinalizeSubmission that finalizes every submission of the
\* assignment.
FinalizeAssignment(subs, submissionId, totalScore, by) ==
  [s \in DOMAIN subs |->
     IF submissionId \in DOMAIN subs /\ subs[s].assignment_id = subs[submissionId].assignment_id
     THEN [subs[s] EXCEPT !.status = "graded", !.total_score = totalScore,
                          !.graded_at = TRUE,
                          !.graded_by = IF by.t = "undefined" THEN @ ELSE by]
     ELSE subs[s]]

\* Variant of FinalizeSubmission that adds the total to the stored one.
FinalizeSubmissionAdding(subs, submissionId, totalScore, by) ==
  [s \in DOMAIN subs |->
     IF s = submissionId
     THEN [subs[s] EXCEPT !.status = "graded",
                          !.total_score = IF @ = Null THEN totalScore
                                          ELSE Plus(@, totalScore),
                          !.graded_at = TRUE,
                          !.graded_by = IF by.t = "undefined" THEN @ ELSE by]
     ELSE subs[s]]

\* UPDATE submissions SET status = 'graded', total_score, graded_at [, graded_by]
\* WHERE submission_id = $n ; graded_by is left alone when by is Undefined.
FinalizeSubmission(subs, submissionId, totalScore, by) ==
  [s \in DOMAIN subs |->
     IF s = submissionId
     THEN [subs[s] EXCEPT !.status = "graded", !.total_score = totalScore,
                          !.graded_at = TRUE,
                          !.graded_by = IF by.t = "undefined" THEN @ ELSE by]
     ELSE subs[s]]

\* The rows joined for submission s by
\*   FROM submissions s JOIN questions q ON s.assignment_id = q.assignment_id
\*   JOIN question_responses qr ON q.question_id = qr.question_id
\*        AND qr.submission_id = s.submission_id
\*   WHERE qr.response_id = $1
\* each identified by its response.
JoinedResponses(rs, subs, s, responseId) ==
  {r \in DOMAIN rs : /\ rs[r].submission_id = s
                     /\ rs[r].question_id \in QuestionIds
                     /\ questions[rs[r].question_id].assignment_id
                          = subs[s].assignment_id
                     /\ r = responseId}

\* COUNT(q.question_id) over the rows joined for s.
TotalQuestions(rs, subs, s, responseId) ==
  Cardinality(JoinedResponses(rs, subs, s, responseId))

\* SELECT s.submission_id, COUNT(q.question_id), COUNT(qr.score), SUM(qr.score)
\* ... GROUP BY s.submission_id : the groups, by submission.
SelectGradedCounts(rs, subs, responseId) ==
  LET groups == {s \in DOMAIN subs : JoinedResponses(rs, subs, s, responseId) # {}}
  IN  [s \in groups |->
         [submission_id |-> s,
          total_questions |-> TotalQuestions(rs, subs, s, responseId),
          graded_questions |->
            Cardinality({r \in JoinedResponses(rs, subs, s, responseId) :
                           rs[r].score.t # "null"}),
          total_score |-> SumScores(rs, JoinedResponses(rs, subs, s, responseId))]]

(***************************************************************************)
(* gradeSubmission                                                         *)
(***************************************************************************)
Idle(p) == procs[p].pc \in {"idle", "done"}

SetProc(p, pr) == procs' = [procs EXCEPT ![p] = pr]

\* A query issued by p: counted, then the continuation.
Query(pr) == [pr EXCEPT !.queries = @ + 1]

\* Invocation with body { submissionId } (0: the field is missing), up to the
\* first query.
GradeBegin(p, submissionId) ==
  /\ Idle(p)
  /\ LET pr == [Fresh(procs[p], "gradeSubmission") EXCEPT
                  !.submissionId = submissionId,
                  !.prev = IF submissionId \in SubmissionIds
                           THEN procs[p].lastGrade[submissionId] ELSE NoReply]
     IN  IF submissionId = 0
         THEN SetProc(p, Return(pr, Reply(400, "Submission ID is required")))
         ELSE SetProc(p, [pr EXCEPT !.pc = "g_submission"])
  /\ UNCHANGED <<questions, responses, submissions, course, enrollments>>

\* Variant of GradeReadSubmission without the check of the status.
GradeReadSubmissionUnchecked(p) ==
  /\ procs[p].pc = "g_submission"
  /\ LET pr == Query(procs[p])
         found == SelectSubmission(submissions, pr.submissionId)
     IN  IF found = <<>>
         THEN SetProc(p, Return(pr, Reply(404, "Submission not found")))
         ELSE SetProc(p, [pr EXCEPT !.assignmentId = found[1].assignment_id,
                                    !.pc = "g_questions"])
  /\ UNCHANGED <<questions, responses, submissions, course, enrollments>>

\* The submission query and the checks on its row.
GradeReadSubmission(p) ==
  /\ procs[p].pc = "g_submission"
  /\ LET pr == Query(procs[p])
         found == SelectSubmission(submissions, pr.submissionId)
     IN  IF found = <<>>
         THEN SetProc(p, Return(pr, Reply(404, "Submission not found")))
         ELSE IF found[1].status = "graded"
         THEN SetProc(p, Return(pr, Reply(400, "Submission is already graded")))
         ELSE SetProc(p, [pr EXCEPT !.assignmentId = found[1].assignment_id,
                                    !.pc = "g_questions"])
  /\ UNCHANGED <<questions, responses, submissions, course, enrollments>>

\* The questions query.
GradeReadQuestions(p) ==
  /\ procs[p].pc = "g_questions"
  /\ SetProc(p, [Query(procs[p]) EXCEPT
                   !.rows = SelectQuestions(responses, procs[p].submissionId,
                                            procs[p].assignmentId, 1),
                   !.i = 1, !.pc = "g_loop"])
  /\ UNCHANGED <<questions, responses, submissions, course, enrollments>>

\* The row the loop is at, and its grading.
CurrentRow(pr) == pr.rows[pr.i]
CurrentGrade(pr) == GradeQuestion(CurrentRow(pr))

\* Variant of WritesScore that also writes the score of a flagged question.
WritesScoreWhenFlagged(pr) ==
  /\ CurrentRow(pr).response_id # 0
  /\ ~CurrentGrade(pr).throws

\* if (!needsManualGrading) { UPDATE ...; totalScore += score }
WritesScore(pr) ==
  /\ CurrentRow(pr).response_id # 0
  /\ ~CurrentGrade(pr).throws
  /\ ~Truthy(CurrentGrade(pr).needsManualGrading)

\* Variant of GradeStep that flags a question without a response for manual
\* grading.
GradeStepFlaggingAbsent(p) ==
  /\ procs[p].pc = "g_loop"
  /\ procs[p].i <= Len(procs[p].rows)
  /\ LET pr == procs[p]
         row == CurrentRow(pr)
         g == CurrentGrade(pr)
     IN  IF row.response_id = 0
         THEN /\ SetProc(p, [pr EXCEPT
                   !.gradingResults =
                      Append(@, GradingResult(row.question_id, 0, Num(0),
                                              Feedback("No response provided"),
                                              Bool(TRUE))),
                   !.i = @ + 1])
              /\ UNCHANGED responses
         ELSE IF g.throws
         THEN /\ SetProc(p, Catch(pr, "exception"))
              /\ UNCHANGED responses
         ELSE IF WritesScore(pr)
         THEN /\ responses' = UpdateResponseScore(responses, row.response_id, g.score,
                                                g.feedback)
              /\ SetProc(p, [Query(pr) EXCEPT
                   !.totalScore = Plus(@, g.score),
                   !.gradingResults =
                      Append(@, GradingResult(row.question_id, row.response_id,
                                              g.score, g.feedback,
                                              g.needsManualGrading)),
                   !.i = @ + 1])
         ELSE /\ SetProc(p, [pr EXCEPT
                   !.gradingResults =
                      Append(@, GradingResult(row.question_id, row.response_id,
                                              g.score, g.feedback,
                                              g.needsManualGrading)),
                   !.i = @ + 1])
              /\ UNCHANGED responses
  /\ UNCHANGED <<questions, submissions, course, enrollments>>

\* One iteration of `for (const question of questions)`.
GradeStep(p) ==
  /\ procs[p].pc = "g_loop"
  /\ procs[p].i <= Len(procs[p].rows)
  /\ LET pr == procs[p]
         row == CurrentRow(pr)
         g == CurrentGrade(pr)
     IN  IF row.response_id = 0
         THEN /\ SetProc(p, [pr EXCEPT
                   !.gradingResults =
                      Append(@, GradingResult(row.question_id, 0, Num(0),
                                              Feedback("No response provided"),
                                              Bool(FALSE))),
                   !.i = @ + 1])
              /\ UNCHANGED responses
         ELSE IF g.throws
         THEN /\ SetProc(p, Catch(pr, "exception"))
              /\ UNCHANGED responses
         ELSE IF WritesScore(pr)
         THEN /\ responses' = UpdateResponseScore(responses, row.response_id, g.score,
                                                g.feedback)
              /\ SetProc(p, [Query(pr) EXCEPT
                   !.totalScore = Plus(@, g.score),
                   !.gradingResults =
                      Append(@, GradingResult(row.question_id, row.response_id,
                                              g.score, g.feedback,
                                              g.needsManualGrading)),
                   !.i = @ + 1])
         ELSE /\ SetProc(p, [pr EXCEPT
                   !.gradingResults =
                      Append(@, GradingResult(row.question_id, row.response_id,
                                              g.score, g.feedback,
                                              g.needsManualGrading)),
                   !.i = @ + 1])
              /\ UNCHANGED responses
  /\ UNCHANGED <<questions, submissions, course, enrollments>>

\* Variant of SomeNeedsManualGrading that looks at the last result only.
LastNeedsManualGrading(gradingResults) ==
  /\ gradingResults # <<>>
  /\ Truthy(gradingResults[Len(gradingResults)].needsManualGrading)

\* gradingResults.some(result => result.needsManualGrading)
SomeNeedsManualGrading(gradingResults) ==
  \E k \in 1..Len(gradingResults) : Truthy(gradingResults[k].needsManualGrading)

\* After the loop: finalize when nothing is flagged, and reply.
GradeFinish(p) ==
  /\ procs[p].pc = "g_loop"
  /\ procs[p].i > Len(procs[p].rows)
  /\ LET pr == procs[p]
         needsManualGrading == SomeNeedsManualGrading(pr.gradingResults)
         reply == GradeReply(pr.totalScore, needsManualGrading, pr.gradingResults)
         done == [Return(pr, reply) EXCEPT !.lastGrade[pr.submissionId] = reply]
     IN  IF ~needsManualGrading
         THEN /\ submissions' = FinalizeSubmission(submissions, pr.submissionId,
                                                   pr.totalScore, Undefined)
              /\ SetProc(p, Query(done))
         ELSE /\ SetProc(p, done)
              /\ UNCHANGED submissions
  /\ UNCHANGED <<questions, responses, course, enrollments>>

(***************************************************************************)
(* manualGradeQuestion                                                     *)
(***************************************************************************)
\* Variant of ManualBegin that takes every falsy score for a missing one.
ManualBeginFalsyScore(p, responseId, score, feedback, graderId) ==
  /\ Idle(p)
  /\ LET pr == [Fresh(procs[p], "manualGradeQuestion") EXCEPT
                  !.responseId = responseId, !.score = score,
                  !.feedback = feedback, !.graderId = graderId]
     IN  IF responseId = 0 \/ ~Truthy(score)
         THEN SetProc(p, Return(pr, Reply(400, "Response ID and score are required")))
         ELSE SetProc(p, [pr EXCEPT !.pc = "m_update"])
  /\ UNCHANGED <<questions, responses, submissions, course, enrollments>>

\* Invocation with body { responseId, score, feedback, graderId } (responseId
\* 0: missing; score Undefined: missing), up to the first query.
ManualBegin(p, responseId, score, feedback, graderId) ==
  /\ Idle(p)
  /\ LET pr == [Fresh(procs[p], "manualGradeQuestion") EXCEPT
                  !.responseId = responseId, !.score = score,
                  !.feedback = feedback, !.graderId = graderId]
     IN  IF responseId = 0 \/ score = Undefined
         THEN SetProc(p, Return(pr, Reply(400, "Response ID and score are required")))
         ELSE SetProc(p, [pr EXCEPT !.pc = "m_update"])
  /\ UNCHANGED <<questions, responses, submissions, course, enrollments>>

\* The update of the response.
ManualUpdate(p) ==
  /\ procs[p].pc = "m_update"
  /\ LET pr == procs[p]
     IN  /\ responses' = UpdateResponseManual(responses, pr.responseId, pr.score,
                                              Feedback(pr.feedback), pr.graderId)
         /\ SetProc(p, [Query(pr) EXCEPT !.pc = "m_check"])
  /\ UNCHANGED <<questions, submissions, course, enrollments>>

\* The query that counts the graded questions, and the comparison.
ManualCheck(p) ==
  /\ procs[p].pc = "m_check"
  /\ LET pr == Query(procs[p])
         found == SelectGradedCounts(responses, submissions, pr.responseId)
     IN  IF DOMAIN found # {}
         THEN LET submission == found[CHOOSE s \in DOMAIN found : TRUE]
              IN  IF submission.total_questions = submission.graded_questions
                  THEN SetProc(p, [pr EXCEPT !.agg = submission, !.pc = "m_finalize"])
                  ELSE SetProc(p, Return(pr, Reply(200, "Question graded successfully")))
         ELSE SetProc(p, Return(pr, Reply(200, "Question graded successfully")))
  /\ UNCHANGED <<questions, responses, submissions, course, enrollments>>

\* The update of the submission.
ManualFinalize(p) ==
  /\ procs[p].pc = "m_finalize"
  /\ LET pr == procs[p]
     IN  /\ submissions' = FinalizeSubmission(submissions, pr.agg.submission_id,
                                              pr.agg.total_score, Num(pr.graderId))
         /\ SetProc(p, Return(Query(pr), Reply(200, "Question graded successfully")))
  /\ UNCHANGED <<questions, responses, course, enrollments>>

(***************************************************************************)
(* calculateFinalGrade                                                     *)
(*                                                                         *)
(* Grades and percentages are exact fractions [t |-> "rat", num, den] or   *)
(* NaN.  DECIMAL columns (total_score, weight, min_score, max_score) reach *)
(* JavaScript as strings, INTEGER columns (total_points) as numbers.       *)
(***************************************************************************)
RECURSIVE GCD(_, _)
GCD(a, b) == IF b = 0 THEN a ELSE GCD(b, a % b)

Rat(n, d) ==
  LET g == GCD(Abs(n), d) IN [t |-> "rat", num |-> n \div g, den |-> d \div g]

RatPlus(x, y) ==
  IF x.t = "rat" /\ y.t = "rat"
  THEN Rat(x.num * y.den + y.num * x.den, x.den * y.den)
  ELSE NaN

\* SELECT category_id, name, weight FROM assignment_categories WHERE course_id = $1
SelectCategories(courseId) ==
  SelectSeq(categories, LAMBDA c : c.course_id = courseId)

\* SELECT a.assignment_id, a.total_points, s.total_score FROM assignments a
\* LEFT JOIN submissions s ON a.assignment_id = s.assignment_id
\*   AND s.student_id = $1 AND s.status = 'graded'
\* WHERE a.category_id = $2 AND a.is_published = TRUE
RECURSIVE SelectAssignments(_, _, _)
SelectAssignments(studentId, categoryId, a) ==
  IF a > Len(assignments) THEN <<>>
  ELSE IF assignments[a].category_id # categoryId \/ ~assignments[a].is_published
  THEN SelectAssignments(studentId, categoryId, a + 1)
  ELSE LET ids == {s \in DOMAIN submissions :
                     /\ submissions[s].assignment_id = assignments[a].assignment_id
                     /\ submissions[s].student_id = studentId
                     /\ submissions[s].status = "graded"}
           matched == SetToSortedSeq(ids)
           row(total_score) ==
             [assignment_id |-> assignments[a].assignment_id,
              total_points |-> assignments[a].total_points,
              total_score |-> total_score]
       IN  (IF ids = {} THEN <<row(Null)>>
            ELSE [k \in 1..Len(matched) |-> row(submissions[matched[k]].total_score)])
           \o SelectAssignments(studentId, categoryId, a + 1)

\* earnedPoints += assignment.total_score || 0.  A stored total_score is a
\* string and therefore truthy; number + string and string + string
\* concatenate: "0" + "45.00" still reads as 45, "045.00" + 0 as well, while
\* "045.00" + "8.00" is not a number.
EarnedPlus(earnedPoints, total_score) ==
  IF total_score.t = "null" THEN earnedPoints
  ELSE IF earnedPoints.str THEN [str |-> TRUE, value |-> NaN]
  ELSE [str |-> TRUE, value |-> total_score]

RECURSIVE EarnedPoints(_, _, _)
EarnedPoints(rows, k, earnedPoints) ==
  IF k > Len(rows) THEN earnedPoints
  ELSE EarnedPoints(rows, k + 1, EarnedPlus(earnedPoints, rows[k].total_score))

RECURSIVE TotalPoints(_, _)
TotalPoints(rows, k) ==
  IF k > Len(rows) THEN 0 ELSE rows[k].total_points + TotalPoints(rows, k + 1)

\* Variant of CategoryGrade that counts a category without assignments as
\* fully earned.
CategoryGradeFullWhenEmpty(category, rows) ==
  IF rows = <<>>
  THEN [categoryId |-> category.category_id, weight |-> category.weight,
        percentage |-> Rat(100, 1), weightedScore |-> Rat(category.weight, 100),
        assignments |-> 0]
  ELSE
    LET totalPoints == TotalPoints(rows, 1)
        earnedPoints == EarnedPoints(rows, 1, [str |-> FALSE, value |-> Num(0)]).value
        categoryPercentage ==
          IF totalPoints > 0
          THEN (IF earnedPoints.t = "num"
                THEN Rat(earnedPoints.n * 100, totalPoints) ELSE NaN)
          ELSE Rat(0, 1)
        weightedScore ==
          IF categoryPercentage.t = "rat"
          THEN Rat(categoryPercentage.num * category.weight,
                   categoryPercentage.den * 10000)
          ELSE NaN
    IN  [categoryId |-> category.category_id, weight |-> category.weight,
         percentage |-> categoryPercentage, weightedScore |-> weightedScore,
         assignments |-> Len(rows)]

\* The entry of categoryGrades for a category and the rows of its
\* assignments.
CategoryGrade(category, rows) ==
  IF rows = <<>>
  THEN [categoryId |-> category.category_id, weight |-> category.weight,
        percentage |-> Rat(0, 1), weightedScore |-> Rat(0, 1), assignments |-> 0]
  ELSE
    LET totalPoints == TotalPoints(rows, 1)
        earnedPoints == EarnedPoints(rows, 1, [str |-> FALSE, value |-> Num(0)]).value
        categoryPercentage ==
          IF totalPoints > 0
          THEN (IF earnedPoints.t = "num"
                THEN Rat(earnedPoints.n * 100, totalPoints) ELSE NaN)
          ELSE Rat(0, 1)
        weightedScore ==
          IF categoryPercentage.t = "rat"
          THEN Rat(categoryPercentage.num * category.weight,
                   categoryPercentage.den * 10000)
          ELSE NaN
    IN  [categoryId |-> category.category_id, weight |-> category.weight,
         percentage |-> categoryPercentage, weightedScore |-> weightedScore,
         assignments |-> Len(rows)]

\* SELECT gst.grade, gst.min_score, gst.max_score ... WHERE cgs.course_id = $1
\* ORDER BY gst.min_score DESC
SelectScale(courseId) ==
  SelectSeq(thresholds, LAMBDA th : th.course_id = courseId)

\* Variant of LetterGrade that takes the lower end of a range as outside it.
RECURSIVE LetterGradeAboveMin(_, _, _)
LetterGradeAboveMin(scale, k, finalGrade) ==
  IF k > Len(scale) THEN Null
  ELSE IF /\ finalGrade.t = "rat"
          /\ 100 * finalGrade.num > scale[k].min_score * finalGrade.den
          /\ 100 * finalGrade.num <= scale[k].max_score * finalGrade.den
       THEN Str(<<scale[k].grade>>)
       ELSE LetterGradeAboveMin(scale, k + 1, finalGrade)

\* The first threshold whose range contains finalGrade, or null.
RECURSIVE LetterGrade(_, _, _)
LetterGrade(scale, k, finalGrade) ==
  IF k > Len(scale) THEN Null
  ELSE IF /\ finalGrade.t = "rat"
          /\ 100 * finalGrade.num >= scale[k].min_score * finalGrade.den
          /\ 100 * finalGrade.num <= scale[k].max_score * finalGrade.den
       THEN Str(<<scale[k].grade>>)
       ELSE LetterGrade(scale, k + 1, finalGrade)

\* The value a DECIMAL(5,2) column keeps of a number: its hundredths, a half
\* rounded away from zero.
Decimal2(x) ==
  IF x.t # "rat" THEN NaN
  ELSE Num((200 * x.num + x.den) \div (2 * x.den))

\* UPDATE enrollments SET final_grade = $1 WHERE student_id = $2 AND course_id = $3
UpdateFinalGrade(finalGrade, studentId, courseId) ==
  [e \in DOMAIN enrollments |->
     IF enrollments[e].student_id = studentId /\ enrollments[e].course_id = courseId
     THEN [enrollments[e] EXCEPT !.final_grade = Decimal2(finalGrade)]
     ELSE enrollments[e]]

\* Invocation with body { studentId, courseId } (0: the field is missing), up
\* to the first query.
FinalBegin(p, studentId, courseId) ==
  /\ Idle(p)
  /\ LET pr == [Fresh(procs[p], "calculateFinalGrade") EXCEPT
                  !.studentId = studentId, !.courseId = courseId]
     IN  IF studentId = 0 \/ courseId = 0
         THEN SetProc(p, Return(pr, Reply(400, "Student ID and course ID are required")))
         ELSE SetProc(p, [pr EXCEPT !.pc = "f_categories"])
  /\ UNCHANGED <<questions, responses, submissions, course, enrollments>>

\* The categories query.
FinalReadCategories(p) ==
  /\ procs[p].pc = "f_categories"
  /\ LET pr == Query(procs[p])
         found == SelectCategories(pr.courseId)
     IN  IF found = <<>>
         THEN SetProc(p, Return(pr, Reply(404, "No assignment categories found for this course")))
         ELSE SetProc(p, [pr EXCEPT !.rows = found, !.i = 1,
                                    !.finalGrade = Rat(0, 1), !.pc = "f_loop"])
  /\ UNCHANGED <<questions, responses, submissions, course, enrollments>>

\* One iteration of `for (const category of categories)`.
FinalCategoryStep(p) ==
  /\ procs[p].pc = "f_loop"
  /\ procs[p].i <= Len(procs[p].rows)
  /\ LET pr == Query(procs[p])
         category == pr.rows[pr.i]
         grade == CategoryGrade(category,
                                SelectAssignments(pr.studentId, category.category_id, 1))
     IN  SetProc(p, [pr EXCEPT
                       !.finalGrade = IF grade.assignments = 0 THEN @
                                      ELSE RatPlus(@, grade.weightedScore),
                       !.categoryGrades = Append(@, grade),
                       !.i = @ + 1])
  /\ UNCHANGED <<questions, responses, submissions, course, enrollments>>

\* The grading scale query and the search of the letter grade.
FinalReadScale(p) ==
  /\ procs[p].pc = "f_loop"
  /\ procs[p].i > Len(procs[p].rows)
  /\ LET pr == Query(procs[p])
     IN  SetProc(p, [pr EXCEPT
                       !.letterGrade = LetterGrade(SelectScale(pr.courseId), 1,
                                                   pr.finalGrade),
                       !.pc = "f_update"])
  /\ UNCHANGED <<questions, responses, submissions, course, enrollments>>

\* The update of the enrollment, and the reply.
FinalUpdate(p) ==
  /\ procs[p].pc = "f_update"
  /\ LET pr == Query(procs[p])
     IN  /\ enrollments' = UpdateFinalGrade(pr.finalGrade, pr.studentId, pr.courseId)
         /\ SetProc(p, Return(pr, FinalGradeReply(pr.finalGrade, pr.letterGrade,
                                                  pr.categoryGrades)))
  /\ UNCHANGED <<questions, responses, submissions, course>>

(***************************************************************************)
(* Storage failure: the query a handler is about to issue rejects, the     *)
(* catch block replies 500.                                                *)
(***************************************************************************)
AtQuery(pr) ==
  \/ pr.pc \in {"g_submission", "g_questions", "m_update", "m_check", "m_finalize",
               "f_categories", "f_loop", "f_update"}
  \/ /\ pr.pc = "g_loop"
     /\ IF pr.i <= Len(pr.rows) THEN WritesScore(pr)
        ELSE ~SomeNeedsManualGrading(pr.gradingResults)

StorageFailure(p) ==
  /\ AtQuery(procs[p])
  /\ SetProc(p, Catch(Query(procs[p]), "storage"))
  /\ UNCHANGED <<questions, responses, submissions, course, enrollments>>

(***************************************************************************)
(* Specifications                                                          *)
(***************************************************************************)
ManualScores == {Undefined, Null, Num(0), Num(150)}
GraderId == 7

Begin(p) ==
  \/ \E submissionId \in 0..(NumSubmissions + 1) \cup {2 * NumSubmissions + 1} :
       GradeBegin(p, submissionId)
  \/ \E responseId \in 0..(Len(responses) + 1) :
     \E score \in ManualScores :
     \E feedback \in {"Partly right"} :
       ManualBegin(p, responseId, score, feedback, GraderId)
  \/ \E studentId \in 0..NumSubmissions : \E courseId \in 0..2 :
       FinalBegin(p, studentId, courseId)

Step(p) ==
  \/ GradeReadSubmission(p)
  \/ GradeReadQuestions(p)
  \/ GradeStep(p)
  \/ GradeFinish(p)
  \/ ManualUpdate(p)
  \/ ManualCheck(p)
  \/ ManualFinalize(p)
  \/ FinalReadCategories(p)
  \/ FinalCategoryStep(p)
  \/ FinalReadScale(p)
  \/ FinalUpdate(p)
  \/ StorageFailure(p)

\* One client that invokes the handlers one after the other.
ClientCall == procs[1].calls < MaxCalls /\ Begin(1) /\ UNCHANGED strategy
ClientStep == Step(1) /\ UNCHANGED strategy

Next ==
  \/ ClientCall
  \/ ClientStep

Spec == Init /\ [][Next]_vars

(***************************************************************************)
(* Properties                                                              *)
(***************************************************************************)
Done(p, op) == procs[p].pc = "done" /\ procs[p].op = op

Conflict == Reply(400, "Submission is already graded")

\* Nothing stored has changed since the invocation of p started.
Untouched(p) ==
  /\ responses = procs[p].pre.responses
  /\ submissions = procs[p].pre.submissions
  /\ enrollments = procs[p].pre.enrollments

\* Sum of the scores of the responses of submission s, in hundredths (a
\* response without a score adds nothing).
RECURSIVE SumOfScores(_, _)
SumOfScores(s, ids) ==
  IF ids = {} THEN 0
  ELSE LET r == CHOOSE x \in ids : TRUE
       IN  (IF responses[r].submission_id = s /\ responses[r].score.t = "num"
            THEN responses[r].score.n ELSE 0)
           + SumOfScores(s, ids \ {r})

\* Every question of the assignment has a scored response in submission s.
AllQuestionsScored(s) ==
  \A q \in QuestionIds :
    \E r \in DOMAIN responses :
      /\ responses[r].submission_id = s
      /\ responses[r].question_id = q
      /\ responses[r].score.t # "null"

\* C1: whenever a submission is graded, its total_score is the sum of the
\* scores of all its responses.
C1_TotalIsSumOfScores ==
  \A s \in SubmissionIds :
    submissions[s].status = "graded" =>
      submissions[s].total_score = Num(SumOfScores(s, DOMAIN responses))

\* C2: a manualGradeQuestion invocation that turned a submission to graded
\* left every question of the assignment with a scored response.
C2_ManualFinalizesOnlyWhenAllScored ==
  \A p \in Procs : \A s \in SubmissionIds :
    ( /\ Done(p, "manualGradeQuestion")
      /\ submissions[s].status = "graded"
      /\ procs[p].pre.submissions[s].status # "graded" )
    => AllQuestionsScored(s)

\* C3: a gradeSubmission invocation that ran to its reply finalized the
\* submission (status graded, total_score the returned total) exactly when
\* none of its grading results is flagged; with a flagged result it replied
\* 200 with needsManualGrading and left the submission row as it was; and an
\* invocation that did not reply 200 left the submission row as it was.
C3_FinalizesIffNothingFlagged ==
  \A p \in Procs :
    Done(p, "gradeSubmission") =>
      LET pr == procs[p]
          flagged == \E k \in 1..Len(pr.result.gradingResults) :
                       Truthy(pr.result.gradingResults[k].needsManualGrading)
      IN  IF pr.result.statusCode = 200
          THEN /\ pr.result.needsManualGrading = flagged
               /\ ~flagged =>
                    /\ submissions[pr.submissionId].status = "graded"
                    /\ submissions[pr.submissionId].total_score = pr.result.totalScore
               /\ flagged => submissions = pr.pre.submissions
          ELSE submissions = pr.pre.submissions

\* C3 witness: a reply with needsManualGrading after a score was written,
\* the submission not graded.
C3_Witness ==
  \E p \in Procs :
    /\ Done(p, "gradeSubmission")
    /\ procs[p].result.statusCode = 200
    /\ procs[p].result.needsManualGrading
    /\ responses # procs[p].pre.responses
    /\ submissions[procs[p].submissionId].status = "submitted"

\* C4: a gradeSubmission invocation that failed on a storage error left all
\* responses and submissions as they were when it started.
C4_StorageFailureLeavesNothing ==
  \A p \in Procs :
    (Done(p, "gradeSubmission") /\ procs[p].cause = "storage") => Untouched(p)

\* C6: gradeSubmission on a submission that is graded replies Conflict
\* (unless the submission query itself failed) and changes nothing.
C6_GradedIsRejectedUnchanged ==
  \A p \in Procs :
    ( /\ Done(p, "gradeSubmission")
      /\ procs[p].submissionId \in DOMAIN submissions
      /\ procs[p].pre.submissions[procs[p].submissionId].status = "graded" )
    => /\ procs[p].cause = "storage" \/ procs[p].result = Conflict
       /\ Untouched(p)

\* C6 witness: a Conflict reply for a submission with scored responses.
C6_Witness ==
  \E p \in Procs :
    /\ Done(p, "gradeSubmission")
    /\ procs[p].result = Conflict
    /\ submissions[procs[p].submissionId].total_score.t = "num"
    /\ \E r \in DOMAIN responses : responses[r].score.t = "num"

\* C7: a gradeSubmission success reply repeats the grading results and the
\* total of the previous success reply for the same submission; and on a
\* graded submission the reply is Conflict (or the 500 of a failed query).
C7_RepeatedGradingIsIdentical ==
  \A p \in Procs :
    Done(p, "gradeSubmission") =>
      /\ (procs[p].result.statusCode = 200 /\ procs[p].prev.statusCode = 200)
           => /\ procs[p].result.gradingResults = procs[p].prev.gradingResults
              /\ procs[p].result.totalScore = procs[p].prev.totalScore
      /\ ( /\ procs[p].submissionId \in DOMAIN submissions
           /\ procs[p].pre.submissions[procs[p].submissionId].status = "graded" )
           => procs[p].result.statusCode \in {400, 500}

\* C7 witness: a second success reply, with a written score among its results.
C7_Witness ==
  \E p \in Procs :
    /\ Done(p, "gradeSubmission")
    /\ procs[p].result.statusCode = 200
    /\ procs[p].prev.statusCode = 200
    /\ \E k \in 1..Len(procs[p].result.gradingResults) :
         /\ procs[p].result.gradingResults[k].responseId # 0
         /\ ~Truthy(procs[p].result.gradingResults[k].needsManualGrading)
         /\ procs[p].result.gradingResults[k].score.n > 0

\* C8: gradeSubmission never ends in its catch block because of the shape of
\* a stored answer or response.
C8_MalformedAnswerIsLocal ==
  \A p \in Procs : Done(p, "gradeSubmission") => procs[p].cause # "exception"

\* C9: manualGradeQuestion for a responseId without a row, and
\* gradeSubmission for a submissionId without a row, reply 404 (unless a
\* query failed) and change nothing.
C9_AbsentRowIsNotFound ==
  \A p \in Procs :
    /\ ( /\ Done(p, "manualGradeQuestion")
         /\ procs[p].responseId # 0
         /\ procs[p].score.t # "undefined"
         /\ procs[p].responseId \notin DOMAIN procs[p].pre.responses )
       => /\ procs[p].cause = "storage" \/ procs[p].result.statusCode = 404
          /\ Untouched(p)
    /\ ( /\ Done(p, "gradeSubmission")
         /\ procs[p].submissionId # 0
         /\ procs[p].submissionId \notin DOMAIN submissions )
       => /\ procs[p].cause = "storage" \/ procs[p].result.statusCode = 404
          /\ Untouched(p)

\* The invocation of p lacks a required field of its body.
MissingInput(p) ==
  \/ /\ procs[p].op = "gradeSubmission"
     /\ procs[p].submissionId = 0
  \/ /\ procs[p].op = "manualGradeQuestion"
     /\ procs[p].responseId = 0 \/ procs[p].score.t = "undefined"
  \/ /\ procs[p].op = "calculateFinalGrade"
     /\ procs[p].studentId = 0 \/ procs[p].courseId = 0

\* C10: an invocation that lacks a required field (submissionId; responseId
\* or score; studentId or courseId) never issues a query: it ends with the
\* 400 reply, no query counted and nothing stored changed.  A
\* manualGradeQuestion with a responseId and the score 0 is not answered 400.
C10_InvalidInputBeforeStorage ==
  \A p \in Procs :
    /\ (procs[p].op # "none" /\ MissingInput(p))
       => /\ procs[p].pc = "done"
          /\ procs[p].result.statusCode = 400
          /\ procs[p].queries = 0
          /\ Untouched(p)
    /\ ( /\ Done(p, "manualGradeQuestion")
         /\ procs[p].responseId # 0
         /\ procs[p].score = Num(0) )
       => procs[p].result.statusCode # 400

\* C10 witness: a calculateFinalGrade without courseId, rejected with no
\* query issued, as the second invocation of the client.
C10_Witness ==
  \E p \in Procs :
    /\ Done(p, "calculateFinalGrade")
    /\ procs[p].studentId # 0
    /\ procs[p].courseId = 0
    /\ procs[p].calls = 2
    /\ procs[p].result = Reply(400, "Student ID and course ID are required")
    /\ procs[p].queries = 0

(***************************************************************************)
(* A gradeSubmission and a manualGradeQuestion invocation racing: slot 1   *)
(* runs one gradeSubmission, slot 2 one manualGradeQuestion, their storage *)
(* steps interleave freely (the handlers take no lock and open no          *)
(* transaction).  Queries do not fail here.                                *)
(***************************************************************************)
RaceGradeCall(p) ==
  /\ procs[p].calls = 0
  /\ \E submissionId \in SubmissionIds : GradeBegin(p, submissionId)
  /\ UNCHANGED strategy

RaceManualCall ==
  /\ procs[2].calls = 0
  /\ \E responseId \in DOMAIN responses :
     \E score \in {Num(0), Num(150)} :
       ManualBegin(2, responseId, score, "Partly right", GraderId)
  /\ UNCHANGED strategy

RaceGradeStep(p) ==
  /\ \/ GradeReadSubmission(p)
     \/ GradeReadQuestions(p)
     \/ GradeStep(p)
     \/ GradeFinish(p)
  /\ UNCHANGED strategy

RaceManualStep ==
  /\ \/ ManualUpdate(2)
     \/ ManualCheck(2)
     \/ ManualFinalize(2)
  /\ UNCHANGED strategy

RaceNext ==
  \/ RaceGradeCall(1)
  \/ RaceManualCall
  \/ RaceGradeStep(1)
  \/ RaceManualStep

SpecRace == Init /\ [][RaceNext]_vars

\* The whole of gradeSubmission's loop from row k on, run without
\* interruption on the table rs: the table, the total and the flags it ends
\* with.
RECURSIVE RunGradeLoop(_, _, _, _, _)
RunGradeLoop(rows, k, rs, total, flagged) ==
  IF k > Len(rows)
  THEN [responses |-> rs, total |-> total, flagged |-> flagged, threw |-> FALSE]
  ELSE LET row == rows[k]
           g == GradeQuestion(row)
       IN  IF row.response_id = 0
           THEN RunGradeLoop(rows, k + 1, rs, total, flagged)
           ELSE IF g.throws
           THEN [responses |-> rs, total |-> total, flagged |-> flagged,
                 threw |-> TRUE]
           ELSE IF ~Truthy(g.needsManualGrading)
           THEN RunGradeLoop(rows, k + 1,
                             UpdateResponseScore(rs, row.response_id, g.score,
                                                 g.feedback),
                             Plus(total, g.score), flagged)
           ELSE RunGradeLoop(rows, k + 1, rs, total, TRUE)

\* The stored state after an uninterrupted gradeSubmission(submissionId) on
\* the stored state db.
RunGrade(db, submissionId) ==
  LET found == SelectSubmission(db.submissions, submissionId)
  IN  IF found = <<>> \/ found[1].status = "graded" THEN db
      ELSE LET end == RunGradeLoop(SelectQuestions(db.responses, submissionId,
                                                   found[1].assignment_id, 1),
                                   1, db.responses, Num(0), FALSE)
           IN  [responses |-> end.responses,
                submissions |->
                  IF end.threw \/ end.flagged THEN db.submissions
                  ELSE FinalizeSubmission(db.submissions, submissionId, end.total,
                                          Undefined)]

\* The stored state after an uninterrupted manualGradeQuestion on db.
RunManual(db, responseId, score, feedback, graderId) ==
  LET rs == UpdateResponseManual(db.responses, responseId, score,
                                 Feedback(feedback), graderId)
      found == SelectGradedCounts(rs, db.submissions, responseId)
      finalize == /\ DOMAIN found # {}
                  /\ \A s \in DOMAIN found :
                       found[s].total_questions = found[s].graded_questions
  IN  [responses |-> rs,
       submissions |->
         IF finalize
         THEN LET s == CHOOSE x \in DOMAIN found : TRUE
              IN  FinalizeSubmission(db.submissions, s, found[s].total_score,
                                     Num(graderId))
         ELSE db.submissions]

\* The stored state every behaviour starts from: nothing scored or graded.
StartDb ==
  [responses |-> [r \in DOMAIN responses |->
                    Response(responses[r].submission_id, responses[r].question_id,
                             responses[r].response_data)],
   submissions |-> InitialSubmissions]

RaceOver ==
  /\ Done(1, "gradeSubmission")
  /\ Done(2, "manualGradeQuestion")
  /\ responses[procs[2].responseId].submission_id = procs[1].submissionId

\* C5: when a gradeSubmission and a manualGradeQuestion on the same
\* submission have both replied, the stored responses and submissions are
\* those of running the two one after the other, in one of the two orders.
C5_RaceIsSerializable ==
  RaceOver =>
    LET db == [responses |-> responses, submissions |-> submissions]
        m == procs[2]
        manual(x) == RunManual(x, m.responseId, m.score, m.feedback, m.graderId)
        grade(x) == RunGrade(x, procs[1].submissionId)
    IN  \/ db = manual(grade(StartDb))
        \/ db = grade(manual(StartDb))


(***************************************************************************)
(* The grading strategies applied on their own: the argument is a question *)
(* row that carries its metadata and the response_data of one response.    *)
(***************************************************************************)
MaxSelections == 3     \* entries of the selection list of a multiple_answer response

Argument(question, response_data) ==
  [question_id |-> 1,
   question_type |-> question.question_type,
   points |-> question.points,
   correct_answer |-> question.correct_answer,
   options |-> question.options,
   metadata |-> question.metadata,
   response_id |-> 1,
   response_data |-> response_data]

\* { requiresManualGrading: true }
ManualOnly ==
  Metadata(Bool(TRUE), Undefined, Undefined, Undefined, Undefined, "",
           Undefined, Undefined)

Letters(seq) == [i \in 1..Len(seq) |-> S(<<seq[i]>>)]

\* The arguments the strategies are applied to.
StrategyArguments ==
  LET Flag == {Undefined, Bool(TRUE)}

      MultipleChoiceArguments ==
        { Argument(Question("multiple_choice", 200, S(<<"a">>),
                            Arr(Letters(<<"a", "b">>)), m), r) :
            m \in {Null, ManualOnly}, r \in {S(<<"a">>), S(<<"b">>)} }

      \* Options a, b, c or a, b, c, d, or an empty option list; any subset of
      \* them is correct; the student sends a list of up to MaxSelections of the
      \* letters a..d.
      MultipleAnswerArguments ==
        UNION { { Argument(Question("multiple_answer", points,
                                    Arr(SelectSeq(Letters(options),
                                                  LAMBDA o : o.s[1] \in correct)),
                                    Arr(Letters(options)), Null),
                           Arr(Letters(selection))) :
                    correct \in SUBSET {options[i] : i \in 1..Len(options)},
                    points \in {100, 300},
                    selection \in UNION {[1..n -> {"a", "b", "c", "d"}] :
                                           n \in 0..MaxSelections} } :
                options \in {<<>>, <<"a", "b", "c">>, <<"a", "b", "c", "d">>} }

      MatchingArguments ==
        { Argument(Question("matching", 200,
                            Obj(1 :> S(<<"x">>) @@ 2 :> S(<<"y">>)), Null, m), r) :
            m \in {Null, ManualOnly},
            r \in {Obj(1 :> S(<<"x">>) @@ 2 :> S(<<"y">>)),
                   Obj(1 :> S(<<"x">>) @@ 2 :> S(<<"z">>))} }

      FillInBlankMetadata ==
        {Null} \cup
        { Metadata(rm, cs, ar, rt, Undefined, "", Undefined, Undefined) :
            rm \in Flag, cs \in Flag, ar \in Flag, rt \in {Undefined, Num(50), Num(75)} }

      \* Blank 1 accepts Paris or paris, blank 2 accepts cat.
      FillInBlankArguments ==
        { Argument(Question("fill_in_blank", 200,
                            Obj(1 :> Arr(<<S(<<"P", "a", "r", "i", "s">>),
                                           S(<<"p", "a", "r", "i", "s">>)>>)
                                @@ 2 :> S(<<"c", "a", "t">>)),
                            Null, m), r) :
            m \in FillInBlankMetadata,
            r \in {Obj(1 :> S(<<"P", "A", "R", "I", "S">>) @@ 2 :> S(<<"r", "a", "t">>)),
                   Obj(1 :> S(<<"p", "a", "r", "i", "s">>) @@ 2 :> S(<<"c", "a", "t">>)),
                   Obj(1 :> S(<<"P", "a", "r", "i", "s">>) @@ 2 :> S(<<"C", "a", "t">>)),
                   Obj(1 :> S(<<"P", "a", "r", "i", "s">>)),
                   Obj(1 :> S(<<"p", "a", "r", "i", "s">>) @@ 2 :> Num(700))} }

      ShortAnswerMetadata ==
        {Null} \cup
        { Metadata(rm, Undefined, ar, Undefined, st, "", Undefined, Undefined) :
            rm \in Flag, ar \in Flag, st \in {Undefined, Num(50), Num(100)} }

      \* Expected answers with responses at similarity 1, 4/5, 3/5, 2/5 and 0, and
      \* 7/10.
      ShortAnswerTexts ==
        { <<c, r>> : c \in {<<"a", "b", "c", "d", "e", "f">>},
                     r \in {<<"a", "b", "c", "d", "e", "f">>,
                            <<"a", "b", "c", "d", "e", "g">>,
                            <<"a", "b", "c", "d", "x", "y">>,
                            <<"a", "b", "c", "x", "y", "z">>,
                            <<"x", "y", "z">>} }
        \cup { << <<"a", "b", "c", "d", "e", "f", "g", "h", "i", "j", "k">>,
                  <<"a", "b", "c", "d", "e", "f", "g", "h", "x", "y", "z">> >> }

      ShortAnswerArguments ==
        { Argument(Question("short_answer", 300, S(cr[1]), Null, m), S(cr[2])) :
            m \in ShortAnswerMetadata, cr \in ShortAnswerTexts }

      ComputationalMetadata ==
        {Null} \cup
        { Metadata(rm, Undefined, Undefined, Undefined, Undefined, type, tolerance, ri) :
            rm \in Flag, type \in {"numeric", "formula", ""},
            tolerance \in {Undefined, Num(50)}, ri \in Flag }

      \* Correct answers 0 and 10 (or none stored), responses 0, 10, 10.4, 10.6 and
      \* the text "10.4".
      ComputationalArguments ==
        { Argument(Question("computational", 200, c, Obj(<<>>), m), r) :
            m \in ComputationalMetadata,
            c \in {Null, Num(0), Num(1000)},
            r \in {Num(0), Num(1000), Num(1040), Num(1060),
                   S(<<"1", "0", ".", "4">>)} }

      ManualArguments ==
        { Argument(Question(type, 200, Null, Null, m), S(<<"t", "e", "x", "t">>)) :
            type \in {"coding", "essay", "diagram", "oral"}, m \in {Null, ManualOnly} }

      \* A matching question without pairs and a fill_in_blank question without
      \* blanks: correct_answer is the object {}.
      EmptyKeyArguments ==
        { Argument(Question(type, 200, Obj(<<>>), Null, Null), r) :
            type \in {"matching", "fill_in_blank"},
            r \in {Obj(<<>>), Obj(1 :> S(<<"x">>))} }
  IN  MultipleChoiceArguments \cup MultipleAnswerArguments \cup MatchingArguments
      \cup FillInBlankArguments \cup ShortAnswerArguments
      \cup ComputationalArguments \cup ManualArguments \cup EmptyKeyArguments

InitStrategy ==
  /\ questions = <<>>
  /\ responses = <<>>
  /\ submissions = <<>>
  /\ categories = <<>>
  /\ assignments = <<>>
  /\ thresholds = <<>>
  /\ enrollments = <<>>
  /\ procs = [p \in Procs |-> IdleProc]
  /\ strategy \in {[question |-> q, result |-> Null, applied |-> FALSE] :
                     q \in StrategyArguments}

\* The strategy for the types is still to be applied.
Pending(types) ==
  /\ ~strategy.applied
  /\ strategy.question.question_type \in types

Applied(result) ==
  /\ strategy' = [strategy EXCEPT !.result = result, !.applied = TRUE]
  /\ UNCHANGED <<questions, responses, submissions, course, enrollments, procs>>

MultipleChoiceStrategy ==
  /\ Pending({"true_false", "multiple_choice"})
  /\ Applied(gradeMultipleChoice(strategy.question))

MultipleAnswerStrategy ==
  /\ Pending({"multiple_answer"})
  /\ Applied(gradeMultipleAnswer(strategy.question))

MatchingStrategy ==
  /\ Pending({"matching"})
  /\ Applied(gradeMatching(strategy.question))

FillInBlankStrategy ==
  /\ Pending({"fill_in_blank"})
  /\ Applied(gradeFillInBlank(strategy.question))

ShortAnswerStrategy ==
  /\ Pending({"short_answer"})
  /\ Applied(gradeShortAnswer(strategy.question))

ComputationalStrategy ==
  /\ Pending({"computational"})
  /\ Applied(gradeComputational(strategy.question))

CodingStrategy ==
  /\ Pending({"coding"})
  /\ Applied(gradeCoding(strategy.question))

\* The default case of the switch: essay, diagram and oral questions.
ManualStrategy ==
  /\ Pending({"essay", "diagram", "oral"})
  /\ Applied(GradeQuestion(strategy.question))

NextStrategy ==
  \/ MultipleChoiceStrategy
  \/ MultipleAnswerStrategy
  \/ MatchingStrategy
  \/ FillInBlankStrategy
  \/ ShortAnswerStrategy
  \/ ComputationalStrategy
  \/ CodingStrategy
  \/ ManualStrategy

SpecStrategy == InitStrategy /\ [][NextStrategy]_vars

(***************************************************************************)
(* Properties of the strategies                                            *)
(***************************************************************************)
RequiresManualGrading(question) ==
  /\ Truthy(question.metadata)
  /\ Truthy(question.metadata.requiresManualGrading)

\* C11: a question whose metadata has requiresManualGrading set is graded
\* with score 0 and needsManualGrading = true, whatever its type and the
\* response.
C11_ManualOnlyShortCircuits ==
  (strategy.applied /\ RequiresManualGrading(strategy.question))
    => /\ ~strategy.result.throws
       /\ strategy.result.score = Num(0)
       /\ strategy.result.needsManualGrading = Bool(TRUE)

(***************************************************************************)
(* gradeSubmission over questions that were stored with grading hints      *)
(***************************************************************************)
\* { similarityThreshold: 0.5 }
LenientMetadata ==
  Metadata(Undefined, Undefined, Undefined, Undefined, Num(50), "",
           Undefined, Undefined)

\* A numeric question (answer 10, tolerance 0.5) with the responses 10.4 and
\* 10.6, and a short answer with the expected response and a response of
\* similarity 3/5.
HintedQuestionBank ==
  { [q |-> Question("computational", 200, Num(1000), Obj(<<>>), NumericMetadata),
     r |-> {Num(1040), Num(1060)}],
    [q |-> Question("short_answer", 200, S(<<"a", "b", "c", "d", "e", "f">>),
                    Null, LenientMetadata),
     r |-> {S(<<"a", "b", "c", "d", "e", "f">>),
            S(<<"a", "b", "c", "d", "x", "y">>)}] }

\* As Init, the questions taken from the hinted bank.
InitHints ==
  \E bank \in [QuestionIds -> HintedQuestionBank] :
  \E answered \in SUBSET QuestionIds :
  \E data \in [QuestionIds -> UNION {e.r : e \in HintedQuestionBank}] :
    /\ \A q \in QuestionIds : data[q] \in bank[q].r
    /\ questions = [q \in QuestionIds |-> bank[q].q]
    /\ responses =
         ResponseRows(SelectSeq(PairSeq(1, 1),
                                LAMBDA pq : pq[1] > 1 \/ pq[2] \in answered),
                      data)
    /\ submissions = InitialSubmissions
    /\ categories = CourseCategories
    /\ assignments = CourseAssignments(questions)
    /\ thresholds = CourseThresholds
    /\ enrollments = [s \in SubmissionIds |->
                        [student_id |-> s, course_id |-> 1, final_grade |-> Null]]
    /\ procs = [p \in Procs |->
                  [IdleProc EXCEPT !.pre = [responses |-> responses,
                                            submissions |-> submissions,
                                            enrollments |-> enrollments]]]
    /\ strategy = NoStrategy

SpecHints == InitHints /\ [][Next]_vars

\* The result of the strategy for a stored question, hints included, and a
\* stored response.
StoredGrade(questionId, responseId) ==
  GradeQuestion(Argument(questions[questionId], responses[responseId].response_data))

\* C12: every result of a gradeSubmission reply for an answered question is
\* the result of the question's strategy under the question's stored
\* metadata.
C12_StoredHintsDecide ==
  \A p \in Procs :
    (Done(p, "gradeSubmission") /\ procs[p].result.statusCode = 200)
      => \A k \in 1..Len(procs[p].result.gradingResults) :
           LET res == procs[p].result.gradingResults[k]
           IN  res.responseId # 0
                 => /\ res.score = StoredGrade(res.questionId, res.responseId).score
                    /\ res.needsManualGrading
                         = StoredGrade(res.questionId, res.responseId).needsManualGrading

\* The types and kinds the engine never evaluates on its own.
ManualKind(question) ==
  \/ question.question_type \in {"coding", "essay", "diagram", "oral"}
  \/ /\ question.question_type = "computational"
     /\ Truthy(question.metadata)
     /\ question.metadata.type = "formula"

\* C13: a response to a computational question of formula kind, or to a
\* coding, essay, diagram or oral question, is graded with score 0 and
\* needsManualGrading = true.
C13_ManualKindsAreDeferred ==
  (strategy.applied /\ ManualKind(strategy.question))
    => /\ strategy.result.score = Num(0)
       /\ strategy.result.needsManualGrading = Bool(TRUE)

(***************************************************************************)
(* Properties of gradeSubmission, continued                                *)
(***************************************************************************)
\* The results of a reply for answered questions that were not flagged.
Scored(gradingResults) ==
  {k \in 1..Len(gradingResults) :
     /\ gradingResults[k].responseId # 0
     /\ ~Truthy(gradingResults[k].needsManualGrading)}

RECURSIVE TotalOf(_, _)
TotalOf(gradingResults, ks) ==
  IF ks = {} THEN Num(0)
  ELSE LET k == CHOOSE x \in ks : TRUE
       IN  Plus(TotalOf(gradingResults, ks \ {k}), gradingResults[k].score)

\* Question q had no response in submission s when the invocation of p
\* started.
Unanswered(p, s, q) ==
  \A r \in DOMAIN procs[p].pre.responses :
    ~ /\ procs[p].pre.responses[r].submission_id = s
      /\ procs[p].pre.responses[r].question_id = q

\* C14: in a success reply of gradeSubmission the questions without a
\* response, and only they, have the result (responseId null, score 0, "No
\* response provided", needsManualGrading false); the total is the sum of
\* the scores of the answered questions that were not flagged, the reply is
\* flagged only when an answered question is, the queries issued are the two
\* reads, one write per scored response and the finalization, and an
\* unflagged submission is finalized with that total.
C14_NoResponseScoresZero ==
  \A p \in Procs :
    (Done(p, "gradeSubmission") /\ procs[p].result.statusCode = 200)
      => LET reply == procs[p].result
             results == reply.gradingResults
             flagged == \E k \in 1..Len(results) :
                          /\ results[k].responseId # 0
                          /\ Truthy(results[k].needsManualGrading)
         IN  /\ \A k \in 1..Len(results) :
                  /\ results[k].responseId = 0
                       <=> Unanswered(p, procs[p].submissionId, results[k].questionId)
                  /\ results[k].responseId = 0
                       => /\ results[k].score = Num(0)
                          /\ results[k].feedback = Feedback("No response provided")
                          /\ results[k].needsManualGrading = Bool(FALSE)
             /\ reply.totalScore = TotalOf(results, Scored(results))
             /\ reply.needsManualGrading = flagged
             /\ procs[p].queries
                  = 2 + Cardinality(Scored(results)) + (IF flagged THEN 0 ELSE 1)
             /\ ~flagged
                  => /\ submissions[procs[p].submissionId].status = "graded"
                     /\ submissions[procs[p].submissionId].total_score = reply.totalScore

\* C14 witness: a submission finalized by gradeSubmission with a question
\* left unanswered and another one scored above 0.
C14_Witness ==
  \E p \in Procs :
    /\ Done(p, "gradeSubmission")
    /\ procs[p].result.statusCode = 200
    /\ submissions[procs[p].submissionId].status = "graded"
    /\ procs[p].pre.submissions[procs[p].submissionId].status = "submitted"
    /\ \E k \in 1..Len(procs[p].result.gradingResults) :
         procs[p].result.gradingResults[k].responseId = 0
    /\ procs[p].result.totalScore.t = "num"
    /\ procs[p].result.totalScore.n > 0

(***************************************************************************)
(* Properties of the strategies, continued                                 *)
(***************************************************************************)
\* A computational question of numeric kind, not manual-only, whose correct
\* answer and response are numbers.
NumericCase(question) ==
  /\ question.question_type = "computational"
  /\ Truthy(question.metadata)
  /\ question.metadata.type = "numeric"
  /\ ~Truthy(question.metadata.requiresManualGrading)
  /\ question.correct_answer.t = "num"
  /\ question.response_data.t = "num"

\* |response - correctAnswer| <= tolerance, the tolerance 0 when none is set.
WithinTolerance(question) ==
  LET d == question.response_data.n - question.correct_answer.n
      tolerance == IF question.metadata.tolerance.t = "num"
                   THEN question.metadata.tolerance.n ELSE 0
  IN  d <= tolerance /\ 0 - d <= tolerance

\* C15: a numeric computational question gets the full points when the
\* response is within the tolerance of the correct answer and 0 otherwise,
\* and is flagged exactly when the answer is wrong and reviewIncorrect is
\* set.
C15_NumericWithinTolerance ==
  (strategy.applied /\ NumericCase(strategy.question))
    => /\ strategy.result.score
            = IF WithinTolerance(strategy.question)
              THEN Num(strategy.question.points) ELSE Num(0)
       /\ strategy.result.needsManualGrading
            = Bool(/\ ~WithinTolerance(strategy.question)
                   /\ strategy.question.metadata.reviewIncorrect = Bool(TRUE))

\* The entries of the array value list that are not among those of the
\* array value others.
EntriesOutside(list, others) ==
  Cardinality({i \in 1..Len(list.a) :
                 list.a[i] \notin {others.a[j] : j \in 1..Len(others.a)}})

\* C16: for a multiple_answer question with N >= 1 options, the score is
\* max(0, (N - incorrectlySelected - missedCorrect) / N * points) rounded to
\* the nearest hundredth (a half upwards); with the options a, b, c, d, the
\* correct answers a, b and the selection a, c it is half the points.
C16_MultipleAnswerDecisions ==
  (/\ strategy.applied
   /\ strategy.question.question_type = "multiple_answer"
   /\ Len(strategy.question.options.a) >= 1)
    => LET question == strategy.question
           N == Len(question.options.a)
           incorrectlySelected ==
             EntriesOutside(question.response_data, question.correct_answer)
           missedCorrect ==
             EntriesOutside(question.correct_answer, question.response_data)
           decisions == N - incorrectlySelected - missedCorrect
           score == strategy.result.score
       IN  /\ score.t = "num"
           /\ decisions <= 0 => score.n = 0
           /\ decisions > 0
                => /\ 2 * (score.n * N - decisions * question.points) <= N
                   /\ 2 * (score.n * N - decisions * question.points) > 0 - N
           /\ ( /\ question.options = Arr(Letters(<<"a", "b", "c", "d">>))
                /\ question.correct_answer = Arr(Letters(<<"a", "b">>))
                /\ question.response_data = Arr(Letters(<<"a", "c">>)) )
                => 2 * score.n = question.points

\* C16 witness: the strategy applied to the selection a, c for the options
\* a, b, c, d of which a, b are correct, on a question worth 3 points.
C16_Witness ==
  /\ strategy.applied
  /\ strategy.question.question_type = "multiple_answer"
  /\ strategy.question.options = Arr(Letters(<<"a", "b", "c", "d">>))
  /\ strategy.question.correct_answer = Arr(Letters(<<"a", "b">>))
  /\ strategy.question.response_data = Arr(Letters(<<"a", "c">>))
  /\ strategy.question.points = 300
  /\ strategy.result.score = Num(150)

\* A short_answer question, not manual-only, whose correct answer and
\* response are texts.
ShortAnswerCase(question) ==
  /\ question.question_type = "short_answer"
  /\ ~RequiresManualGrading(question)
  /\ question.correct_answer.t = "str" /\ question.correct_answer.s # <<>>
  /\ question.response_data.t = "str" /\ question.response_data.s # <<>>

\* The threshold of a question in hundredths: the hint, or 0.8.
ThresholdOf(question) ==
  IF Truthy(question.metadata) /\ question.metadata.similarityThreshold.t = "num"
  THEN question.metadata.similarityThreshold.n
  ELSE 80

AlwaysReview(question) ==
  Truthy(question.metadata) /\ question.metadata.alwaysReview = Bool(TRUE)

FillInBlankCase(question) ==
  /\ question.question_type = "fill_in_blank"
  /\ ~RequiresManualGrading(question)
  /\ question.correct_answer.t = "obj"
  /\ question.response_data.t = "obj"

\* The student's answer to a blank equals the accepted text.
SameText(answer, accepted, caseSensitive) ==
  /\ answer.t = "str"
  /\ accepted.t = "str"
  /\ IF caseSensitive THEN answer.s = accepted.s
     ELSE ToLowerCase(answer.s) = ToLowerCase(accepted.s)

\* The blanks of the question the response answers correctly.
CorrectBlanks(question) ==
  LET caseSensitive == /\ Truthy(question.metadata)
                       /\ Truthy(question.metadata.caseSensitive)
  IN  {k \in DOMAIN question.correct_answer.o :
         /\ k \in DOMAIN question.response_data.o
         /\ LET answer == question.response_data.o[k]
                accepted == question.correct_answer.o[k]
            IN  IF accepted.t = "arr"
                THEN \E i \in 1..Len(accepted.a) :
                       SameText(answer, accepted.a[i], caseSensitive)
                ELSE SameText(answer, accepted, caseSensitive)}

\* C18: the score of a fill_in_blank question is correctBlanks / totalBlanks
\* of the points, where a blank is correct when the answer equals an
\* accepted one (without regard to case unless caseSensitive is set) and a
\* blank without an answer is not; needsManualGrading is true when
\* alwaysReview is set or the ratio is below reviewThreshold, and false in
\* every other case.
C18_FillInBlankScoreAndFlag ==
  (strategy.applied /\ FillInBlankCase(strategy.question))
    => LET question == strategy.question
           correctBlanks == Cardinality(CorrectBlanks(question))
           totalBlanks == Cardinality(DOMAIN question.correct_answer.o)
           review ==
             /\ Truthy(question.metadata)
             /\ \/ question.metadata.alwaysReview = Bool(TRUE)
                \/ /\ question.metadata.reviewThreshold.t = "num"
                   /\ 100 * correctBlanks
                        < question.metadata.reviewThreshold.n * totalBlanks
       IN  /\ ~strategy.result.throws
           /\ strategy.result.score
                = Round2(correctBlanks, totalBlanks, question.points)
           /\ strategy.result.needsManualGrading = Bool(review)

(***************************************************************************)
(* calculateFinalGrade over a course with two homework assignments and an  *)
(* exam, for one enrolled student                                          *)
(***************************************************************************)
\* Homework 1 and 2 are worth 10 points each, the exam 50.
CourseWork ==
  << [assignment_id |-> 1, category_id |-> 1, total_points |-> 1000,
      is_published |-> TRUE],
     [assignment_id |-> 2, category_id |-> 1, total_points |-> 1000,
      is_published |-> TRUE],
     [assignment_id |-> 3, category_id |-> 2, total_points |-> 5000,
      is_published |-> TRUE] >>

RECURSIVE SubmissionRows(_, _)
SubmissionRows(work, a) ==
  IF a > Len(work) THEN <<>>
  ELSE (IF work[a].status = "none" THEN <<>>
        ELSE <<Submission(a, 1, work[a].status, work[a].total_score)>>)
       \o SubmissionRows(work, a + 1)

\* A scale with overlapping ranges and a gap.
GappedThresholds ==
  << [course_id |-> 1, grade |-> "A", min_score |-> 9000, max_score |-> 10000],
     [course_id |-> 1, grade |-> "B", min_score |-> 8500, max_score |-> 9500],
     [course_id |-> 1, grade |-> "D", min_score |-> 6000, max_score |-> 7000] >>

\* What the student has for an assignment: no submission, a submission not
\* graded yet, or a graded one with its total.
InitCourse ==
  LET Work(status, total_score) == [status |-> status, total_score |-> total_score]
      HomeworkStates ==
        {Work("none", Null), Work("submitted", Null)}
        \cup {Work("graded", Num(n)) : n \in {800, 900, 1000}}
      ExamStates ==
        {Work("none", Null), Work("submitted", Null)}
        \cup {Work("graded", Num(n)) : n \in {4000, 4500, 4501}}
  IN
  \E hw1 \in HomeworkStates : \E hw2 \in HomeworkStates : \E exam \in ExamStates :
  \E published \in BOOLEAN : \E examPublished \in BOOLEAN :
    /\ questions = <<>>
    /\ responses = <<>>
    /\ submissions = SubmissionRows(<<hw1, hw2, exam>>, 1)
    /\ categories = CourseCategories
    /\ assignments = [CourseWork EXCEPT ![2].is_published = published,
                                        ![3].is_published = examPublished]
    /\ thresholds \in {CourseThresholds, GappedThresholds, <<>>}
    /\ enrollments = <<[student_id |-> 1, course_id |-> 1, final_grade |-> Null]>>
    /\ procs = [p \in Procs |->
                  [IdleProc EXCEPT !.pre = [responses |-> responses,
                                            submissions |-> submissions,
                                            enrollments |-> enrollments]]]
    /\ strategy = NoStrategy

\* The client asks for the final grade of student 1 in course 1 or in
\* course 2, which has no category.
CourseCall ==
  /\ procs[1].calls < MaxCalls
  /\ \E courseId \in {1, 2} : FinalBegin(1, 1, courseId)
  /\ UNCHANGED strategy

CourseStep ==
  /\ \/ FinalReadCategories(1)
     \/ FinalCategoryStep(1)
     \/ FinalReadScale(1)
     \/ FinalUpdate(1)
  /\ UNCHANGED strategy

NextCourse ==
  \/ CourseCall
  \/ CourseStep

SpecCourse == InitCourse /\ [][NextCourse]_vars

(***************************************************************************)
(* Properties of calculateFinalGrade                                       *)
(***************************************************************************)
RECURSIVE SumOver(_, _, _)
SumOver(rows, ids, field) ==
  IF ids = {} THEN 0
  ELSE LET id == CHOOSE x \in ids : TRUE
       IN  rows[id][field] + SumOver(rows, ids \ {id}, field)

\* The published assignments of a category.
Published(categoryId) ==
  {a \in DOMAIN assignments :
     assignments[a].category_id = categoryId /\ assignments[a].is_published}

\* The graded submissions of the student for published assignments of the
\* category.
GradedWork(studentId, categoryId) ==
  {s \in DOMAIN submissions :
     /\ submissions[s].student_id = studentId
     /\ submissions[s].status = "graded"
     /\ \E a \in Published(categoryId) :
          assignments[a].assignment_id = submissions[s].assignment_id}

\* Sum over the categories c..Len(categories) of the course of
\* earnedPoints / totalPoints * 100 * weight / 100, as a fraction.
RECURSIVE WeightedSum(_, _, _)
WeightedSum(studentId, courseId, c) ==
  IF c > Len(categories) THEN Rat(0, 1)
  ELSE LET totalPoints ==
             SumOver(assignments, Published(categories[c].category_id), "total_points")
           earned ==
             SumOver([s \in DOMAIN submissions |->
                        [points |-> submissions[s].total_score.n]],
                     GradedWork(studentId, categories[c].category_id), "points")
           share == IF categories[c].course_id # courseId \/ totalPoints = 0
                    THEN Rat(0, 1)
                    ELSE Rat(earned * categories[c].weight, totalPoints * 100)
       IN  RatPlus(share, WeightedSum(studentId, courseId, c + 1))

\* C19: the finalGrade of a success reply of calculateFinalGrade is the sum
\* over the categories of the course of earnedPoints / totalPoints * weight,
\* totalPoints over the published assignments of the category, earnedPoints
\* over the student's graded submissions for them.
C19_FinalGradeIsWeightedSum ==
  \A p \in Procs :
    (Done(p, "calculateFinalGrade") /\ procs[p].result.statusCode = 200)
      => procs[p].result.finalGrade
           = WeightedSum(procs[p].studentId, procs[p].courseId, 1)

\* The thresholds of the course whose range contains the grade.
Containing(courseId, finalGrade) ==
  {k \in DOMAIN thresholds :
     /\ thresholds[k].course_id = courseId
     /\ finalGrade.t = "rat"
     /\ thresholds[k].min_score * finalGrade.den <= 100 * finalGrade.num
     /\ 100 * finalGrade.num <= thresholds[k].max_score * finalGrade.den}

\* C20: the letterGrade of a success reply is the grade of the threshold
\* with the highest min among those whose range [min, max] contains the
\* finalGrade of the reply, and null when no range contains it.
C20_LetterGradeIsFirstContaining ==
  \A p \in Procs :
    (Done(p, "calculateFinalGrade") /\ procs[p].result.statusCode = 200)
      => LET containing == Containing(procs[p].courseId, procs[p].result.finalGrade)
         IN  IF containing = {} THEN procs[p].result.letterGrade = Null
             ELSE \E k \in containing :
                    /\ \A j \in containing :
                         thresholds[j].min_score <= thresholds[k].min_score
                    /\ procs[p].result.letterGrade = Str(<<thresholds[k].grade>>)

\* C20 witness: with A = [90, 100] and B = [80, 89.99] the finalGrade 90 is
\* answered with A.
C20_Witness ==
  \E p \in Procs :
    /\ Done(p, "calculateFinalGrade")
    /\ procs[p].result.statusCode = 200
    /\ thresholds = CourseThresholds
    /\ procs[p].result.finalGrade = Rat(90, 1)
    /\ procs[p].result.letterGrade = Str(<<"A">>)

\* The categories of the course, and those of them without a published
\* assignment.
CategoriesOf(courseId) ==
  {c \in DOMAIN categories : categories[c].course_id = courseId}

EmptyCategories(courseId) ==
  {c \in CategoriesOf(courseId) : Published(categories[c].category_id) = {}}

\* C21: in a success reply every category of the course has an entry in the
\* breakdown; the entry of a category without published assignment has
\* percentage 0 and weightedScore 0; and when every other category is at
\* 100 percent the finalGrade is the sum of the weights of those others.
C21_EmptyCategoryCountsZero ==
  \A p \in Procs :
    (Done(p, "calculateFinalGrade") /\ procs[p].result.statusCode = 200)
      => LET breakdown == procs[p].result.categoryGrades
             others == CategoriesOf(procs[p].courseId)
                         \ EmptyCategories(procs[p].courseId)
         IN  /\ Len(breakdown) = Cardinality(CategoriesOf(procs[p].courseId))
             /\ \A c \in CategoriesOf(procs[p].courseId) :
                  \E k \in 1..Len(breakdown) :
                    /\ breakdown[k].categoryId = categories[c].category_id
                    /\ c \in EmptyCategories(procs[p].courseId)
                         => /\ breakdown[k].percentage = Rat(0, 1)
                            /\ breakdown[k].weightedScore = Rat(0, 1)
             /\ (\A k \in 1..Len(breakdown) :
                   \/ breakdown[k].percentage = Rat(100, 1)
                   \/ \E c \in EmptyCategories(procs[p].courseId) :
                        breakdown[k].categoryId = categories[c].category_id)
                  => procs[p].result.finalGrade
                       = Rat(SumOver(categories, others, "weight"), 100)

\* C21 witness: full marks in Homework and no published exam give the
\* finalGrade 40, the weight of Homework, with both categories in the
\* breakdown.
C21_Witness ==
  \E p \in Procs :
    /\ Done(p, "calculateFinalGrade")
    /\ procs[p].result.statusCode = 200
    /\ EmptyCategories(procs[p].courseId) = {2}
    /\ Len(procs[p].result.categoryGrades) = 2
    /\ procs[p].result.categoryGrades[1].percentage = Rat(100, 1)
    /\ procs[p].result.categoryGrades[2].weightedScore = Rat(0, 1)
    /\ procs[p].result.finalGrade = Rat(40, 1)

\* The enrollments of the student in the course.
EnrollmentsOf(studentId, courseId) ==
  {e \in DOMAIN enrollments :
     /\ enrollments[e].student_id = studentId
     /\ enrollments[e].course_id = courseId}

\* The stored final_grade (hundredths) is the number g.
StoredIs(final_grade, g) ==
  \/ final_grade.t = "nan" /\ g.t = "nan"
  \/ /\ final_grade.t = "num"
     /\ g.t = "rat"
     /\ final_grade.n * g.den = 100 * g.num

\* C22: after a success reply of calculateFinalGrade the final_grade of the
\* enrollment of (studentId, courseId) is the finalGrade of the reply and
\* the other enrollments are as before; after any other reply the
\* enrollments are as before; submissions and responses are as before in
\* every case.
C22_EnrollmentHoldsReturnedGrade ==
  \A p \in Procs :
    Done(p, "calculateFinalGrade")
      => /\ submissions = procs[p].pre.submissions
         /\ responses = procs[p].pre.responses
         /\ procs[p].result.statusCode # 200 => enrollments = procs[p].pre.enrollments
         /\ procs[p].result.statusCode = 200
              => /\ DOMAIN enrollments = DOMAIN procs[p].pre.enrollments
                 /\ \A e \in DOMAIN enrollments :
                      IF e \in EnrollmentsOf(procs[p].studentId, procs[p].courseId)
                      THEN StoredIs(enrollments[e].final_grade,
                                    procs[p].result.finalGrade)
                      ELSE enrollments[e] = procs[p].pre.enrollments[e]

\* C23: after a success reply of gradeSubmission every answered question
\* that was not flagged has the score and feedback of its result stored
\* with graded_at set, whether or not the submission was finalized; the
\* response of a flagged question is as it was before the call, whatever
\* score its result carries; the total of the reply is the sum of the
\* scores of the answered questions that were not flagged.
C23_OnlyUnflaggedAreWritten ==
  \A p \in Procs :
    (Done(p, "gradeSubmission") /\ procs[p].result.statusCode = 200)
      => LET results == procs[p].result.gradingResults
         IN  /\ \A k \in 1..Len(results) :
                  LET rid == results[k].responseId
                  IN  /\ k \in Scored(results)
                           => /\ responses[rid].score = results[k].score
                              /\ responses[rid].feedback = results[k].feedback
                              /\ responses[rid].graded_at
                      /\ (rid # 0 /\ k \notin Scored(results))
                           => responses[rid] = procs[p].pre.responses[rid]
             /\ procs[p].result.totalScore = TotalOf(results, Scored(results))

\* C23 witness: a success reply that left the submission unfinalized, with
\* a stored score above 0 for one question and a flagged question whose
\* result carries a score above 0 while its stored score is still null.
C23_Witness ==
  \E p \in Procs :
    /\ Done(p, "gradeSubmission")
    /\ procs[p].result.statusCode = 200
    /\ submissions[procs[p].submissionId].status = "submitted"
    /\ LET results == procs[p].result.gradingResults
       IN  /\ \E k \in Scored(results) :
                /\ results[k].score.t = "num"
                /\ results[k].score.n > 0
                /\ responses[results[k].responseId].score = results[k].score
           /\ \E k \in 1..Len(results) :
                /\ results[k].responseId # 0
                /\ Truthy(results[k].needsManualGrading)
                /\ results[k].score.t = "num"
                /\ results[k].score.n > 0
                /\ responses[results[k].responseId].score = Null
           /\ procs[p].result.totalScore.t = "num"
           /\ procs[p].result.totalScore.n > 0

\* The submission an invocation of gradeSubmission or manualGradeQuestion
\* is applied to (0 when the response does not exist).
TargetOf(pr) ==
  IF pr.op = "gradeSubmission" THEN pr.submissionId
  ELSE IF pr.responseId \in DOMAIN responses
       THEN responses[pr.responseId].submission_id
       ELSE 0

\* C24: a step of gradeSubmission or manualGradeQuestion applied to
\* submission S leaves the questions alone, creates or deletes no response
\* and no submission, leaves the keys and the data of every response and
\* the assignment and student of every submission alone, and changes no
\* response and no submission row other than those of S.
C24_GradingFrame ==
  [][\A p \in Procs :
       (procs'[p] # procs[p]
          /\ procs'[p].op \in {"gradeSubmission", "manualGradeQuestion"})
         => /\ questions' = questions
            /\ DOMAIN responses' = DOMAIN responses
            /\ DOMAIN submissions' = DOMAIN submissions
            /\ \A r \in DOMAIN responses :
                 /\ responses'[r].submission_id = responses[r].submission_id
                 /\ responses'[r].question_id = responses[r].question_id
                 /\ responses'[r].response_data = responses[r].response_data
                 /\ responses[r].submission_id # TargetOf(procs'[p])
                      => responses'[r] = responses[r]
            /\ \A s \in DOMAIN submissions :
                 /\ submissions'[s].assignment_id = submissions[s].assignment_id
                 /\ submissions'[s].student_id = submissions[s].student_id
                 /\ s # TargetOf(procs'[p]) => submissions'[s] = submissions[s]
    ]_vars

\* C24 witness: manualGradeQuestion has graded the only response of a
\* submission and finalized it, while another submission of the same
\* assignment with a response to the same question is as it was.
C24_Witness ==
  \E p \in Procs :
    /\ Done(p, "manualGradeQuestion")
    /\ procs[p].result.statusCode = 200
    /\ LET target == TargetOf(procs[p])
       IN  /\ target # 0
           /\ procs[p].pre.submissions[target].status = "submitted"
           /\ submissions[target].status = "graded"
           /\ responses[procs[p].responseId].score = procs[p].score
           /\ \E r \in DOMAIN responses :
                /\ responses[r].submission_id # target
                /\ responses[r].question_id = responses[procs[p].responseId].question_id
                /\ submissions[responses[r].submission_id].assignment_id
                     = submissions[target].assignment_id
                /\ responses[r] = procs[p].pre.responses[r]
                /\ submissions[responses[r].submission_id]
                     = procs[p].pre.submissions[responses[r].submission_id]

(***************************************************************************)
(* Termination of the handlers: every query settles and the continuation   *)
(* of a settled query is run                                               *)
(***************************************************************************)
\* As Init, every question a fill_in_blank question that every student has
\* answered.
InitLive ==
  /\ Init
  /\ \A q \in QuestionIds : questions[q].question_type = "fill_in_blank"
  /\ Len(responses) = NumSubmissions * NumQuestions

\* One invocation of any handler.
LiveCall == procs[1].calls < 1 /\ Begin(1) /\ UNCHANGED strategy

NextLive ==
  \/ LiveCall
  \/ ClientStep

\* Every query settles (Step takes the continuation, StorageFailure the
\* catch block), and a continuation that can run is run.
SpecLive == InitLive /\ [][NextLive]_vars /\ WF_vars(ClientStep)

\* The replies a handler ends with: success, invalid input or conflict, not
\* found, internal error.
ResultCodes == {200, 400, 404, 500}

\* C25: an invocation of gradeSubmission, manualGradeQuestion or
\* calculateFinalGrade that has started ends, and with a reply whose
\* status is 200, 400, 404 or 500; an invocation never stops anywhere else.
C25_InvocationsTerminate ==
  /\ [](\A p \in Procs : procs[p].pc = "done" => procs[p].result.statusCode \in ResultCodes)
  /\ \A p \in Procs : ~Idle(p) ~> procs[p].pc = "done"

\* C25 witness: a gradeSubmission whose strategy threw after a score had
\* been written has ended with the reply 500.
C25_Witness ==
  \E p \in Procs :
    /\ Done(p, "gradeSubmission")
    /\ procs[p].cause = "exception"
    /\ procs[p].queries > 2
    /\ procs[p].result.statusCode = 500

(***************************************************************************)
(* submitQuestionResponse, two invocations at a time                       *)
(***************************************************************************)
\* As Init, every question a multiple_choice question answered "a".
InitSubmit ==
  /\ Init
  /\ \A q \in QuestionIds : questions[q].question_type = "multiple_choice"
  /\ \A r \in DOMAIN responses : responses[r].response_data = S(<<"a">>)

\* The responses of the pair (submissionId, questionId).
ResponsesOf(rs, submissionId, questionId) ==
  {r \in DOMAIN rs :
     /\ rs[r].submission_id = submissionId
     /\ rs[r].question_id = questionId}

\* Invocation with body { submissionId, questionId, responseData } (0: the
\* field is missing), up to the first query.
SubmitBegin(p) ==
  /\ Idle(p)
  /\ procs[p].calls < MaxCalls
  /\ \E submissionId \in {0, 1} :
     \E questionId \in {0, 1, NumQuestions + 1} :
     \E responseData \in {S(<<"a">>), S(<<"b">>)} :
       LET pr == [Fresh(procs[p], "submitQuestionResponse") EXCEPT
                    !.submissionId = submissionId, !.questionId = questionId,
                    !.responseData = responseData]
       IN  IF submissionId = 0 \/ questionId = 0
           THEN SetProc(p, Return(pr, Reply(400,
                              "Submission ID and question ID are required")))
           ELSE SetProc(p, [pr EXCEPT !.pc = "s_select"])
  /\ UNCHANGED <<questions, responses, submissions, course, enrollments, strategy>>

\* SELECT response_id FROM question_responses WHERE submission_id = $1 AND
\* question_id = $2, and the branch on existingResult.rows.length.
SubmitSelect(p) ==
  /\ procs[p].pc = "s_select"
  /\ \E rejected \in BOOLEAN :
       LET pr == Query(procs[p])
           existing == ResponsesOf(responses, pr.submissionId, pr.questionId)
       IN  IF rejected THEN SetProc(p, Catch(pr, "storage"))
           ELSE SetProc(p, [pr EXCEPT
                  !.pc = IF existing # {} THEN "s_update" ELSE "s_insert"])
  /\ UNCHANGED <<questions, responses, submissions, course, enrollments, strategy>>

\* UPDATE question_responses SET response_data = $1 WHERE submission_id = $2
\* AND question_id = $3
SubmitUpdate(p) ==
  /\ procs[p].pc = "s_update"
  /\ \E rejected \in BOOLEAN :
       LET pr == Query(procs[p])
       IN  IF rejected
           THEN /\ SetProc(p, Catch(pr, "storage"))
                /\ UNCHANGED responses
           ELSE /\ responses' =
                     [r \in DOMAIN responses |->
                        IF r \in ResponsesOf(responses, pr.submissionId, pr.questionId)
                        THEN [responses[r] EXCEPT !.response_data = pr.responseData]
                        ELSE responses[r]]
                /\ SetProc(p, Return(pr, Reply(200, "Response submitted successfully")))
  /\ UNCHANGED <<questions, submissions, course, enrollments, strategy>>

\* Variant of SubmitInsert on a table without UNIQUE (submission_id,
\* question_id).
SubmitInsertUnconstrained(p) ==
  /\ procs[p].pc = "s_insert"
  /\ \E rejected \in BOOLEAN :
       LET pr == Query(procs[p])
       IN  IF \/ rejected
              \/ pr.questionId \notin DOMAIN questions
              \/ pr.submissionId \notin DOMAIN submissions
           THEN /\ SetProc(p, Catch(pr, "storage"))
                /\ UNCHANGED responses
           ELSE /\ responses' = Append(responses, Response(pr.submissionId, pr.questionId,
                                                           pr.responseData))
                /\ SetProc(p, Return(pr, Reply(200, "Response submitted successfully")))
  /\ UNCHANGED <<questions, submissions, course, enrollments, strategy>>

\* INSERT INTO question_responses (submission_id, question_id,
\* response_data): rejected when the submission or the question does not
\* exist (REFERENCES) or the pair has a response (UNIQUE).
SubmitInsert(p) ==
  /\ procs[p].pc = "s_insert"
  /\ \E rejected \in BOOLEAN :
       LET pr == Query(procs[p])
       IN  IF \/ rejected
              \/ pr.questionId \notin DOMAIN questions
              \/ pr.submissionId \notin DOMAIN submissions
           THEN /\ SetProc(p, Catch(pr, "storage"))
                /\ UNCHANGED responses
           ELSE IF ResponsesOf(responses, pr.submissionId, pr.questionId) # {}
           THEN /\ SetProc(p, Catch(pr, "unique"))
                /\ UNCHANGED responses
           ELSE /\ responses' = Append(responses, Response(pr.submissionId, pr.questionId,
                                                           pr.responseData))
                /\ SetProc(p, Return(pr, Reply(200, "Response submitted successfully")))
  /\ UNCHANGED <<questions, submissions, course, enrollments, strategy>>

NextSubmit ==
  \E p \in Procs :
    \/ SubmitBegin(p)
    \/ SubmitSelect(p)
    \/ SubmitUpdate(p)
    \/ SubmitInsert(p)

SpecSubmit == InitSubmit /\ [][NextSubmit]_vars

\* C26: no two responses have the same (submission, question) pair, and the
\* write of a submitQuestionResponse that found a response for its pair
\* adds no row, sets the data of that response and leaves the other
\* responses alone.
C26_OneResponsePerPair ==
  /\ [](\A r1, r2 \in DOMAIN responses :
          (/\ responses[r1].submission_id = responses[r2].submission_id
           /\ responses[r1].question_id = responses[r2].question_id) => r1 = r2)
  /\ [][\A p \in Procs :
          (procs[p].pc = "s_update" /\ procs'[p].pc = "done"
             /\ procs'[p].result.statusCode = 200)
            => /\ Len(responses') = Len(responses)
               /\ \A r \in DOMAIN responses :
                    IF r \in ResponsesOf(responses, procs[p].submissionId,
                                         procs[p].questionId)
                    THEN responses'[r] = [responses[r] EXCEPT
                                            !.response_data = procs[p].responseData]
                    ELSE responses'[r] = responses[r]
     ]_vars

\* C26 witness: two submits for a pair without a response both found no
\* row; one inserted the response and the other was rejected by the store,
\* and the pair has one response.
C26_Witness ==
  /\ Done(1, "submitQuestionResponse")
  /\ Done(2, "submitQuestionResponse")
  /\ procs[1].submissionId = procs[2].submissionId
  /\ procs[1].questionId = procs[2].questionId
  /\ procs[1].calls = 1
  /\ procs[2].calls = 1
  /\ ResponsesOf(procs[1].pre.responses, procs[1].submissionId, procs[1].questionId) = {}
  /\ {procs[1].result.statusCode, procs[2].result.statusCode} = {200, 500}
  /\ \E p \in Procs : procs[p].cause = "unique"
  /\ Cardinality(ResponsesOf(responses, procs[1].submissionId, procs[1].questionId)) = 1

\* The rows of submission s in db: its responses and its submission row.
RowsOf(db, s) ==
  [responses |-> [r \in {x \in DOMAIN db.responses :
                           db.responses[x].submission_id = s} |-> db.responses[r]],
   submission |-> db.submissions[s]]

\* No grader has touched submission s in db: it is as submitted and none of
\* its responses was graded manually.
OnlyAutoGraded(db, s) ==
  /\ db.submissions[s] = InitialSubmissions[s]
  /\ \A r \in DOMAIN db.responses :
       db.responses[r].submission_id = s => db.responses[r].graded_by = Null

\* C27: a gradeSubmission that replies 200 on a submission that only
\* gradeSubmission attempts have written to, failed ones included, leaves
\* the response scores, the status and the total of one uninterrupted
\* gradeSubmission on the submission as submitted; a gradeSubmission that
\* replies 500 leaves the status of the submission as it found it.
C27_RetryEqualsSingleRun ==
  \A p \in Procs :
    (Done(p, "gradeSubmission") /\ procs[p].submissionId \in DOMAIN submissions)
      => LET s == procs[p].submissionId
         IN  /\ (procs[p].result.statusCode = 200 /\ OnlyAutoGraded(procs[p].pre, s))
                  => RowsOf([responses |-> responses, submissions |-> submissions], s)
                       = RowsOf(RunGrade(StartDb, s), s)
             /\ procs[p].result.statusCode = 500
                  => submissions[s] = procs[p].pre.submissions[s]

\* C27 witness: a gradeSubmission finalized a submission that had a score
\* left behind by an earlier attempt which did not reply 200.
C27_Witness ==
  \E p \in Procs :
    /\ Done(p, "gradeSubmission")
    /\ procs[p].result.statusCode = 200
    /\ procs[p].prev = NoReply
    /\ procs[p].submissionId \in DOMAIN submissions
    /\ OnlyAutoGraded(procs[p].pre, procs[p].submissionId)
    /\ submissions[procs[p].submissionId].status = "graded"
    /\ submissions[procs[p].submissionId].total_score.t = "num"
    /\ submissions[procs[p].submissionId].total_score.n > 0
    /\ \E r \in DOMAIN responses :
         /\ responses[r].submission_id = procs[p].submissionId
         /\ procs[p].pre.responses[r].score # Null

(***************************************************************************)
(* Two invocations of gradeSubmission at a time                            *)
(***************************************************************************)
NextGrades ==
  \E p \in Procs :
    \/ RaceGradeCall(p)
    \/ RaceGradeStep(p)

SpecGrades == InitHints /\ [][NextGrades]_vars

\* C28: when two gradeSubmission calls on the same submission have both
\* replied, the stored responses and submissions are those of one
\* uninterrupted gradeSubmission on the submission.
C28_ConcurrentGradingIsIdempotent ==
  (/\ Done(1, "gradeSubmission")
   /\ Done(2, "gradeSubmission")
   /\ procs[1].submissionId = procs[2].submissionId)
    => [responses |-> responses, submissions |-> submissions]
         = RunGrade(StartDb, procs[1].submissionId)

\* C28 witness: both calls read the submission before either finalized it,
\* both wrote a score and both finalized it, with a total above 0.
C28_Witness ==
  /\ Done(1, "gradeSubmission")
  /\ Done(2, "gradeSubmission")
  /\ procs[1].submissionId = procs[2].submissionId
  /\ \A p \in Procs :
       /\ procs[p].result.statusCode = 200
       /\ ~procs[p].result.needsManualGrading
       /\ procs[p].queries > 3
  /\ submissions[procs[1].submissionId].status = "graded"
  /\ submissions[procs[1].submissionId].total_score.t = "num"
  /\ submissions[procs[1].submissionId].total_score.n > 0

\* C29: the score a strategy returns is a number between 0 and the points
\* of the question.
C29_ScoreWithinPoints ==
  (strategy.applied /\ ~strategy.result.throws)
    => /\ strategy.result.score.t = "num"
       /\ strategy.result.score.n >= 0
       /\ strategy.result.score.n <= strategy.question.points

\* The weights of the categories of the course are non-negative and sum
\* to 100.
WeightsSumTo100(courseId) ==
  /\ \A c \in CategoriesOf(courseId) : categories[c].weight >= 0
  /\ SumOver(categories, CategoriesOf(courseId), "weight") = 10000

\* Every graded submission has a total between 0 and the points of its
\* assignment.
TotalsWithinPoints ==
  \A s \in DOMAIN submissions :
    submissions[s].status = "graded"
      => /\ submissions[s].total_score.t = "num"
         /\ submissions[s].total_score.n >= 0
         /\ \A a \in DOMAIN assignments :
              assignments[a].assignment_id = submissions[s].assignment_id
                => submissions[s].total_score.n <= assignments[a].total_points

\* C30: with weights that are non-negative and sum to 100 and totals within
\* the points of their assignments, the finalGrade of a success reply of
\* calculateFinalGrade is a number between 0 and 100.
C30_FinalGradeWithin100 ==
  \A p \in Procs :
    (/\ Done(p, "calculateFinalGrade")
     /\ procs[p].result.statusCode = 200
     /\ WeightsSumTo100(procs[p].courseId)
     /\ TotalsWithinPoints)
      => /\ procs[p].result.finalGrade.t = "rat"
         /\ procs[p].result.finalGrade.num >= 0
         /\ procs[p].result.finalGrade.num <= 100 * procs[p].result.finalGrade.den

====
